---- MODULE Spec2Model ----
(***************************************************************************)
(* Job lifecycle engine of pyiron_base: GenericJob.run and its per-status  *)
(* handlers, the master wake protocol (update_master), the parent chain    *)
(* (_calculate_predecessor / _calculate_successor), the signal handler and *)
(* Project.refresh_job_status_based_on_job_id, over a shared job table.    *)
(*                                                                         *)
(* Every OS process is a stack of frames; a frame is one job object (its   *)
(* in-memory fields) together with the position of the code running on it. *)
(* A step of a process holds at most one access to the shared job table,   *)
(* so that every interleaving of table reads and writes is explored.       *)
(* run() calls a handler makes on its own object are tail calls: they stay *)
(* in the frame and only add one more enclosing try block (field tries).   *)
(***************************************************************************)
EXTENDS Integers, Sequences, FiniteSets, TLC

\* ---------------------------------------------------------------- bounds
MaxId == 5           \* job table ids 1..MaxId
MaxCalls == 2        \* calls made by users: run() and reconcile
MaxEvents == 1       \* disturbances: signals, failing hooks, launches and workloads
MaxClock == 4        \* ticks of the wall clock
MaxAssign == 3       \* assignments made to one Runmode object
MaxFiles == 2        \* length of a restart_file_list
MaxSuspend == 2      \* calls of suspend()

Users == {1, 2}      \* user sessions
Wrappers == {3, 4}   \* processes started for run_job.py
Procs == Users \cup Wrappers
Ids == 1..MaxId
NoId == 0

\* the three jobs of a scenario, by job_name: A, B and the aggregator M
JobA == 1
JobM == 2
JobB == 3
Names == {JobA, JobB, JobM}

RunModes == {"modal", "non_modal", "queue", "manual"}

VARIABLES
  cfg,        \* the scenario: run modes and the parent/master links the user set
  db,         \* the job table: id -> record
  nextId,     \* next id the table hands out
  clock,      \* datetime.now()
  errmsg,     \* job_name -> an error.msg file exists in the working directory
  queue,      \* id -> state of the job in the external queue
  rec,        \* user -> the id and the status a reconcile in progress has read
  spawned,    \* ids whose run_job.py was started with Popen and has not begun yet
  stack,      \* process -> frames, innermost last
  det,        \* process -> the last constructed job object once its frame is gone
  exc,        \* process -> exception propagation state
  sig,        \* process -> signal handler state
  outcome,    \* process -> how its last top-level call ended
  calls, events,   \* budgets used
  hist,       \* id -> the statuses written to the record, in order
  launches,   \* job_name -> number of times run_if_modal executed the workload
  wjob,       \* wrapper slot -> id of the job its run_job.py was written for
  held,       \* process -> ids of the job objects constructed in it
  serving,    \* processes currently inside the master's refresh handler
  refreshCalls, \* invocations of the master's refresh handler
  busyWrites, \* writes of busy by update_master
  lastSig,    \* what the last completed signal handler read and did
  run_mode,   \* the flags of a Runmode object (job.server.run_mode)
  assigned,   \* the assignments made to that object, in order
  viewer_mode, \* db.viewer_mode: the database connection is read-only
  files,      \* the files in the project's directory
  dest,       \* what copy_to and move_to have put into the destination project
  result,     \* the last Project operation called and the exception it raised
  job,        \* the job object restart() is called on
  new_ham,    \* the job object restart() returned
  qsub,       \* id -> how the job's submission command ended and the queue_id kept
  h5,         \* job_name -> the restart_file_list in the job's HDF5 file, and the
              \* suspend() call that stored it (0: none)
  sus,        \* suspend() in progress on job: its position, the calls begun so far
              \* and, per id, the call that wrote the record's suspended (0: none)
  child       \* a successor scan in another process: the id it examines, the status
              \* it read, the call that had written it, and the object it loaded

vars == <<cfg, rec, db, nextId, clock, errmsg, queue, spawned, stack, det, exc, sig, outcome,
          calls, events, hist, launches, wjob, held, serving, refreshCalls,
          busyWrites, lastSig, run_mode, assigned, viewer_mode, files, dest, result,
          job, new_ham, qsub, h5, sus, child>>

\* ------------------------------------------------------------ job table
NoRec == [present |-> FALSE, name |-> 0, status |-> "initialized", masterid |-> NoId,
          parentid |-> NoId, timestart |-> 0, timestop |-> 0]

Rec(n, s, m, p, t) == [present |-> TRUE, name |-> n, status |-> s, masterid |-> m,
                       parentid |-> p, timestart |-> t, timestop |-> 0]

get_status(id) == db[id].status

\* item_update({'status': s}, id); an update of a row that is gone changes nothing
set_status(d, id, s) == IF id \in Ids /\ d[id].present THEN [d EXCEPT ![id].status = s] ELSE d

Push(h, id, s) == IF id \in Ids /\ db[id].present /\ h[id][Len(h[id])] # s
                    THEN [h EXCEPT ![id] = Append(@, s)] ELSE h

\* the id recorded for a job_name, NoId when the job is not in the table
get_job_id(n) == IF \E i \in Ids : db[i].present /\ db[i].name = n
                   THEN CHOOSE i \in Ids : db[i].present /\ db[i].name = n
                   ELSE NoId

check_if_job_exists(n) == get_job_id(n) # NoId

\* ------------------------------------------------------------- frames
NoObj == [name |-> 0, id |-> NoId, st |-> "initialized"]

Frame(n, id, s, m, p, pc) ==
  [name |-> n, id |-> id, st |-> s, master |-> m, parent |-> p, pc |-> pc, tries |-> 0,
   ra |-> FALSE, rep |-> FALSE, cont |-> "ret", todo |-> <<>>]

\* Project.load(id): a new job object; __init__ reads its status from the table
load(id, pc) == Frame(db[id].name, id, db[id].status, db[id].masterid, db[id].parentid, pc)

Top(p) == stack[p][Len(stack[p])]
\* no reconcile in progress
NoRead == [id |-> NoId, st |-> "initialized"]

Idle(p) == stack[p] = <<>> /\ exc[p] = "none" /\ sig[p] = "none" /\ (p \in Users => rec[p] = NoRead)
Active(p) == stack[p] # <<>> /\ exc[p] = "none" /\ sig[p] = "none"

SetTop(p, f) == [stack EXCEPT ![p] = [@ EXCEPT ![Len(@)] = f]]
PushFrame(p, f, g) == [stack EXCEPT ![p] = Append([@ EXCEPT ![Len(@)] = f], g)]
PopFrame(p) == [stack EXCEPT ![p] = SubSeq(@, 1, Len(@) - 1)]

ObjOf(f) == [name |-> f.name, id |-> f.id, st |-> f.st]
\* the frame leaves: its object stays the signal handler's target if it was
DetAfterPop(p) == IF det[p] = NoObj THEN [det EXCEPT ![p] = ObjOf(Top(p))] ELSE det

Busy(n) == \E q \in Procs : \E i \in 1..Len(stack[q]) : stack[q][i].name = n

\* A step that touches nothing but the process's own memory commutes with the
\* steps of the other processes, so it is taken before they move on: the
\* interleavings explored are those of the accesses to shared state.
Local(q) ==
  \/ /\ Active(q)
     /\ \/ Top(q).pc = "run" /\ ~(Top(q).ra /\ Top(q).id # NoId)
        \/ Top(q).pc \in {"refresh", "busy"}
        \/ Top(q).pc = "finished" /\ ~Top(q).ra
        \/ Top(q).pc = "um_read" /\ Top(q).master = NoId
        \/ Top(q).pc = "pred" /\ Top(q).parent = NoId
        \/ Top(q).pc = "succ_loop" /\ Top(q).todo = <<>>
  \/ exc[q] = "raise" /\ sig[q] = "none" /\ stack[q] # <<>> /\ Top(q).tries = 0
NoLocal == \A q \in Procs : ~Local(q)
Sched(p) == \A q \in Procs : Local(q) => p <= q
At(p, pc) == Active(p) /\ Top(p).pc = pc /\ Sched(p)

Quiescent == /\ \A q \in Procs : stack[q] = <<>>
             /\ spawned = {}
             /\ \A i \in Ids : queue[i] = "none"

\* ------------------------------------------------- decisions of the code
\* run() applying the repair override whether or not repair was asked for
run_status_always_repair(st, ra, rep, id) ==
  IF ra /\ id # NoId THEN "initialized"
  ELSE IF id # NoId /\ st # "finished" THEN "created"
  ELSE st

\* run() applying repair to an aborted job only
run_status_repair_aborted(st, ra, rep, id) ==
  IF ra /\ id # NoId THEN "initialized"
  ELSE IF rep /\ id # NoId /\ st = "aborted" THEN "created"
  ELSE st

\* run() without the run_again branch
run_status_without_run_again(st, ra, rep, id) ==
  IF rep /\ id # NoId /\ st # "finished" THEN "created" ELSE st

\* run() applying the repair override to a job without an id too
run_status_repair_without_id(st, ra, rep, id) ==
  IF ra /\ id # NoId THEN "initialized"
  ELSE IF rep /\ st # "finished" THEN "created"
  ELSE st

\* run(): the status string the dispatch chain is entered with
run_status(st, ra, rep, id) ==
  IF ra /\ id # NoId THEN "initialized"
  ELSE IF rep /\ id # NoId /\ st # "finished" THEN "created"
  ELSE st

\* run() without the branch for busy
dispatch_without_busy(status) ==
  CASE status = "initialized" -> "new"
    [] status = "created" -> "created"
    [] status = "submitted" -> "submitted"
    [] status = "running" -> "running"
    [] status = "collect" -> "collect"
    [] status = "suspend" -> "suspended"
    [] status = "refresh" -> "refresh"
    [] status = "finished" -> "finished"
    [] OTHER -> "none"

\* run() without the branch for collect
dispatch_without_collect(status) ==
  CASE status = "initialized" -> "new"
    [] status = "created" -> "created"
    [] status = "submitted" -> "submitted"
    [] status = "running" -> "running"
    [] status = "suspend" -> "suspended"
    [] status = "refresh" -> "refresh"
    [] status = "busy" -> "busy"
    [] status = "finished" -> "finished"
    [] OTHER -> "none"
\* run() treating the status string 'suspended' as 'created'
dispatch_suspended_as_created(status) ==
  CASE status = "initialized" -> "new"
    [] status \in {"created", "suspended"} -> "created"
    [] status = "submitted" -> "submitted"
    [] status = "running" -> "running"
    [] status = "collect" -> "collect"
    [] status = "suspend" -> "suspended"
    [] status = "refresh" -> "refresh"
    [] status = "busy" -> "busy"
    [] status = "finished" -> "finished"
    [] OTHER -> "none"

\* run(): the if/elif chain over the status string; "none" when no branch matches
dispatch(status) ==
  CASE status = "initialized" -> "new"
    [] status = "created" -> "created"
    [] status = "submitted" -> "submitted"
    [] status = "running" -> "running"
    [] status = "collect" -> "collect"
    [] status = "suspend" -> "suspended"
    [] status = "refresh" -> "refresh"
    [] status = "busy" -> "busy"
    [] status = "finished" -> "finished"
    [] OTHER -> "none"

\* drop_status_to_aborted exempting finished only
must_abort_unless_finished(st) == st # "finished"

\* drop_status_to_aborted: the test made on the refreshed status
must_abort(st) == ~(st = "finished" \/ st = "suspended")

\* _calculate_predecessor: the parent has still to be run
predecessor_waits(ps) == ps \in {"initialized", "created"}

\* _calculate_successor with the misspelt status of run()'s dispatch chain
successor_waits_suspend(cs) == cs \in {"suspend"}

\* _calculate_successor: the successor is waiting for this job
successor_waits(cs) == cs \in {"suspended"}

\* update_master: the two tests made on the master's status
master_idle(ms) == ms = "suspended"
\* update_master writing busy whenever the master is not suspended
master_serviced_any(ms) == ms # "suspended"

master_serviced(ms) == ms = "refresh"
\* update_master with the wrong status in the test after the handler
master_pending_refresh(ms) == ms = "refresh"

master_pending(ms) == ms = "busy"

\* _run_if_created with the tests for modal and non_modal exchanged
strategy_exchanged(mode) ==
  CASE mode = "manual" -> "manual"
    [] mode = "modal" -> "non_modal"
    [] mode \in {"non_modal", "thread"} -> "modal"
    [] mode = "queue" -> "scheduler"
    [] OTHER -> "manual"

\* _run_if_created launching run_job.py in manual mode too
strategy_manual_launches(mode) ==
  CASE mode = "manual" -> "non_modal"
    [] mode = "modal" -> "modal"
    [] mode \in {"non_modal", "thread"} -> "non_modal"
    [] mode = "queue" -> "scheduler"
    [] OTHER -> "manual"

\* _run_if_created: the strategy chosen for a run mode
strategy(mode) ==
  CASE mode = "manual" -> "manual"
    [] mode = "modal" -> "modal"
    [] mode \in {"non_modal", "thread"} -> "non_modal"
    [] mode = "queue" -> "scheduler"
    [] OTHER -> "manual"

\* JobCore.remove(): the record leaves the table
remove(d, id) == IF id \in Ids THEN [d EXCEPT ![id] = NoRec] ELSE d

\* refresh_job_status that keeps the status the object has in memory
refresh_job_status_stale(id, st) == st

\* refresh_job_status: the in-memory status after the refresh
refresh_job_status(id, st) == IF id \in Ids /\ db[id].present THEN db[id].status ELSE st

\* _calculate_successor taking the ids from the highest to the lowest
RECURSIVE DescendingIds(_)
DescendingIds(S) == IF S = {} THEN <<>>
                    ELSE LET m == CHOOSE x \in S : \A y \in S : x >= y
                         IN <<m>> \o DescendingIds(S \ {m})

\* _calculate_successor: sorted ids of the records whose parentid is id
RECURSIVE SortedIds(_)
SortedIds(S) == IF S = {} THEN <<>>
                ELSE LET m == CHOOSE x \in S : \A y \in S : x <= y
                     IN <<m>> \o SortedIds(S \ {m})
successors(id) == SortedIds({c \in Ids : db[c].present /\ db[c].parentid = id /\ id # NoId})

\* ------------------------------------------------------- step fragments
\* frame f replaces the top frame of p
Goto(p, f) == /\ stack' = SetTop(p, f)
              /\ UNCHANGED <<det, exc, outcome>>

\* the code on the top frame returns to its caller
Ret(p) == /\ stack' = PopFrame(p)
          /\ det' = DetAfterPop(p)
          /\ outcome' = IF Len(stack[p]) = 1 THEN [outcome EXCEPT ![p] = "returned"]
                        ELSE outcome
          /\ UNCHANGED exc

\* the code on the top frame raises; f is the frame as the raise leaves it
Raise(p, f) == /\ stack' = SetTop(p, f)
               /\ exc' = [exc EXCEPT ![p] = "raise"]
               /\ UNCHANGED <<det, outcome>>

\* self.status.<s> = True on the top frame's object: memory, and the table when
\* the object has an id
StatusWrite(p, s) == /\ db' = set_status(db, Top(p).id, s)
                     /\ hist' = Push(hist, Top(p).id, s)

\* item_update({'status': s}, id) on another job's record
TableWrite(id, s) == /\ db' = set_status(db, id, s)
                     /\ hist' = Push(hist, id, s)

Fault(b) == events' = IF b THEN events + 1 ELSE events
MayFail == IF events < cfg.events THEN {FALSE, TRUE} ELSE {FALSE}

\* the state of the processes and of their environment, the job table apart
coreU == <<cfg, rec, clock, errmsg, queue, qsub, spawned, stack, det, exc, sig, outcome, calls,
           events, launches, wjob, held, serving, refreshCalls, busyWrites, lastSig>>
\* the objects the job lifecycle leaves alone
auxU == <<run_mode, assigned, viewer_mode, files, dest, result, job, new_ham, h5, sus, child>>
envU == <<cfg, auxU, qsub, rec, nextId, clock, errmsg, queue, spawned, wjob>>
budU == <<calls, events>>
ghoU == <<launches, held, serving, refreshCalls, busyWrites, lastSig>>
tabU == <<db, hist>>

\* -------------------------------------------------------------- run()
\* run() calling validate_ready_to_run after the run_again reset
run_validating_last(p) ==
  /\ At(p, "run")
  /\ LET f == Top(p)
         removing == f.ra /\ f.id # NoId
         status == run_status(f.st, f.ra, f.rep, f.id)
         g == IF removing THEN [f EXCEPT !.id = NoId, !.st = "initialized"] ELSE f
         h == dispatch(status)
     IN \E bad \in MayFail :
          /\ Fault(bad)
          /\ db' = IF removing THEN remove(db, f.id) ELSE db
          /\ errmsg' = IF removing THEN [errmsg EXCEPT ![f.name] = FALSE] ELSE errmsg
          /\ IF bad THEN Raise(p, [g EXCEPT !.tries = @ + 1])
             ELSE IF h = "none" THEN Ret(p)
             ELSE Goto(p, [g EXCEPT !.pc = h, !.tries = @ + 1, !.rep = FALSE,
                                    !.ra = (h = "finished" /\ f.ra)])
  /\ UNCHANGED <<cfg, auxU, qsub, rec, nextId, clock, queue, spawned, wjob, sig, calls, hist, ghoU>>

\* run(run_again, repair): validate_ready_to_run, the run_again reset, the repair
\* override and the dispatch on the status string
run(p) ==
  /\ At(p, "run")
  /\ LET f == Top(p)
         removing == f.ra /\ f.id # NoId
         status == run_status(f.st, f.ra, f.rep, f.id)
         g == IF removing THEN [f EXCEPT !.id = NoId, !.st = "initialized"] ELSE f
         h == dispatch(status)
     IN \E bad \in MayFail :
          /\ Fault(bad)
          /\ IF bad
               THEN /\ Raise(p, [f EXCEPT !.tries = @ + 1])
                    /\ UNCHANGED <<db, errmsg>>
               ELSE /\ db' = IF removing THEN remove(db, f.id) ELSE db
                    /\ errmsg' = IF removing THEN [errmsg EXCEPT ![f.name] = FALSE] ELSE errmsg
                    /\ IF h = "none" THEN Ret(p)
                       ELSE Goto(p, [g EXCEPT !.pc = h, !.tries = @ + 1, !.rep = FALSE,
                                              !.ra = (h = "finished" /\ f.ra)])
  /\ UNCHANGED <<cfg, auxU, qsub, rec, nextId, clock, queue, spawned, wjob, sig, calls, hist, ghoU>>

\* _run_if_new: nothing to do for a job that the table knows; else the working
\* directory and the input are written (_create_job_structure, up to save)
run_if_new(p) ==
  /\ At(p, "new")
  /\ LET f == Top(p)
     IN IF check_if_job_exists(f.name)
          THEN Ret(p) /\ UNCHANGED events
          ELSE \E bad \in MayFail :
                 /\ Fault(bad)
                 /\ IF bad THEN Raise(p, f) ELSE Goto(p, [f EXCEPT !.pc = "save"])
  /\ UNCHANGED <<envU, sig, calls, tabU, ghoU>>

\* save(): add_item_dict(db_entry()) hands out the id; refresh_job_status
save(p) ==
  /\ At(p, "save")
  /\ nextId <= MaxId
  /\ LET f == Top(p)
     IN /\ db' = [db EXCEPT ![nextId] = Rec(f.name, f.st, f.master, f.parent, clock)]
        /\ hist' = [hist EXCEPT ![nextId] = <<f.st>>]
        /\ Goto(p, [f EXCEPT !.id = nextId, !.pc = "set_created"])
        /\ held' = [held EXCEPT ![p] = @ \cup {nextId}]
  /\ nextId' = nextId + 1
  /\ UNCHANGED <<cfg, auxU, qsub, rec, clock, errmsg, queue, spawned, wjob, sig, budU, launches, serving,
                 refreshCalls, busyWrites, lastSig>>

\* _create_job_structure: the wrapper script is written, status.created = True
create_job_structure(p) ==
  /\ At(p, "set_created")
  /\ StatusWrite(p, "created")
  /\ Goto(p, [Top(p) EXCEPT !.st = "created", !.pc = "pred"])
  /\ UNCHANGED <<envU, sig, budU, ghoU>>

\* _calculate_predecessor: the read of the parent's status; afterwards
\* _run_if_new goes on with self.run()
calculate_predecessor(p) ==
  /\ At(p, "pred")
  /\ LET f == Top(p)
     IN IF f.parent = NoId THEN Goto(p, [f EXCEPT !.pc = "run"])
        ELSE IF ~db[f.parent].present THEN Raise(p, f)
        ELSE IF predecessor_waits(get_status(f.parent))
          THEN Goto(p, [f EXCEPT !.pc = "pred_suspend"])
        ELSE Goto(p, [f EXCEPT !.pc = "run"])
  /\ UNCHANGED <<envU, sig, budU, tabU, ghoU>>

\* _calculate_predecessor: self.status.suspended = True
predecessor_suspend(p) ==
  /\ At(p, "pred_suspend")
  /\ StatusWrite(p, "suspended")
  /\ Goto(p, [Top(p) EXCEPT !.st = "suspended", !.pc = "pred_load"])
  /\ UNCHANGED <<envU, sig, budU, ghoU>>

\* _calculate_predecessor: parent_job = load(parent_id); parent_job.run()
predecessor_run(p) ==
  /\ At(p, "pred_load")
  /\ LET f == Top(p)
     IN IF ~db[f.parent].present
          THEN Raise(p, f) /\ UNCHANGED held
          ELSE /\ stack' = PushFrame(p, [f EXCEPT !.pc = "run"], load(f.parent, "run"))
               /\ det' = [det EXCEPT ![p] = NoObj]
               /\ held' = [held EXCEPT ![p] = @ \cup {f.parent}]
               /\ UNCHANGED <<exc, outcome>>
  /\ UNCHANGED <<envU, sig, budU, tabU, launches, serving, refreshCalls, busyWrites, lastSig>>

\* _run_if_created: status.submitted = True, then the strategy of the run mode
run_if_created(p) ==
  /\ At(p, "created")
  /\ StatusWrite(p, "submitted")
  /\ LET f == [Top(p) EXCEPT !.st = "submitted"]
         to == strategy(cfg.mode[f.name])
     IN IF to = "manual" THEN Ret(p) ELSE Goto(p, [f EXCEPT !.pc = to])
  /\ UNCHANGED <<envU, sig, budU, ghoU>>

\* run_if_modal: status.running = True
run_if_modal(p) ==
  /\ At(p, "modal")
  /\ StatusWrite(p, "running")
  /\ Goto(p, [Top(p) EXCEPT !.st = "running", !.pc = "timestart"])
  /\ UNCHANGED <<envU, sig, budU, ghoU>>

\* run_if_modal: item_update({"timestart": datetime.now()})
modal_timestart(p) ==
  /\ At(p, "timestart")
  /\ LET f == Top(p)
     IN /\ db' = IF f.id \in Ids /\ db[f.id].present
                   THEN [db EXCEPT ![f.id].timestart = clock] ELSE db
        /\ Goto(p, [f EXCEPT !.pc = "exec"])
  /\ UNCHANGED <<envU, sig, budU, hist, ghoU>>

\* run_if_modal: subprocess.check_output blocks until the workload exits; exit 0
\* gives status.collect = True and self.run(), any other exit code writes error.msg,
\* status.aborted = True and raises RuntimeError
modal_exec(p) ==
  /\ At(p, "exec")
  /\ clock < MaxClock
  /\ clock' = clock + 1
  /\ LET f == Top(p)
     IN /\ launches' = [launches EXCEPT ![f.name] = @ + 1]
        /\ \E bad \in MayFail :
             /\ Fault(bad)
             /\ IF ~bad
                  THEN /\ StatusWrite(p, "collect")
                       /\ Goto(p, [f EXCEPT !.st = "collect", !.pc = "run"])
                       /\ UNCHANGED errmsg
                  ELSE /\ StatusWrite(p, "aborted")
                       /\ errmsg' = [errmsg EXCEPT ![f.name] = TRUE]
                       /\ Raise(p, [f EXCEPT !.st = "aborted"])
  /\ UNCHANGED <<cfg, auxU, qsub, rec, nextId, queue, spawned, wjob, sig, calls, held, serving, refreshCalls,
                 busyWrites, lastSig>>

\* _run_if_collect: collect_output, collect_logfiles, item_update(_runtime())
run_if_collect(p) ==
  /\ At(p, "collect")
  /\ LET f == Top(p)
     IN \E bad \in MayFail :
          /\ Fault(bad)
          /\ IF bad \/ ~(f.id \in Ids /\ db[f.id].present)
               THEN Raise(p, f) /\ UNCHANGED db
               ELSE /\ db' = [db EXCEPT ![f.id].timestop = clock]
                    /\ Goto(p, [f EXCEPT !.pc = "set_finished"])
  /\ UNCHANGED <<envU, sig, calls, hist, ghoU>>

\* _run_if_collect starting the successor scan right after status.finished
collect_finished_scan_first(p) ==
  /\ At(p, "set_finished")
  /\ StatusWrite(p, "finished")
  /\ Goto(p, [Top(p) EXCEPT !.st = "finished", !.pc = "succ", !.cont = "succ"])
  /\ UNCHANGED <<envU, sig, budU, ghoU>>

\* _run_if_collect: status.finished = True; update_master comes next
collect_finished(p) ==
  /\ At(p, "set_finished")
  /\ StatusWrite(p, "finished")
  /\ Goto(p, [Top(p) EXCEPT !.st = "finished", !.pc = "um_read", !.cont = "succ"])
  /\ UNCHANGED <<envU, sig, budU, ghoU>>

\* ------------------------------------------------------ update_master
\* update_master is left: _calculate_successor follows in _run_if_collect, the
\* handler returns in _run_if_finished
AfterMaster(p, f) == IF f.cont = "succ" THEN Goto(p, [f EXCEPT !.pc = "succ"]) ELSE Ret(p)

\* update_master: master_id and the first read of the master's status
update_master(p) ==
  /\ At(p, "um_read")
  /\ LET f == Top(p)
     IN IF f.master = NoId THEN AfterMaster(p, f)
        ELSE IF ~db[f.master].present THEN Raise(p, f)
        ELSE IF master_idle(get_status(f.master))
          THEN Goto(p, [f EXCEPT !.pc = "um_refresh"])
        ELSE Goto(p, [f EXCEPT !.pc = "um_elif"])
  /\ UNCHANGED <<envU, sig, budU, tabU, ghoU>>

\* update_master: item_update({'status': 'refresh'}, master_id)
master_set_refresh(p) ==
  /\ At(p, "um_refresh")
  /\ TableWrite(Top(p).master, "refresh")
  /\ Goto(p, [Top(p) EXCEPT !.pc = "um_load"])
  /\ UNCHANGED <<envU, sig, budU, ghoU>>
\* update_master calling master_job.run() in place of master_job._run_if_refresh()
master_load_through_run(p) ==
  /\ At(p, "um_load")
  /\ LET f == Top(p)
     IN IF ~db[f.master].present
          THEN Raise(p, f) /\ UNCHANGED held
          ELSE /\ stack' = PushFrame(p, [f EXCEPT !.pc = "um_busy"],
                                     [load(f.master, "refresh") EXCEPT !.tries = 1])
               /\ det' = [det EXCEPT ![p] = NoObj]
               /\ held' = [held EXCEPT ![p] = @ \cup {f.master}]
               /\ UNCHANGED <<exc, outcome>>
  /\ UNCHANGED <<envU, sig, budU, tabU, launches, serving, refreshCalls, busyWrites, lastSig>>

\* update_master: master_job = load(master_id); master_job._run_if_refresh()
master_load(p) ==
  /\ At(p, "um_load")
  /\ LET f == Top(p)
     IN IF ~db[f.master].present
          THEN Raise(p, f) /\ UNCHANGED held
          ELSE /\ stack' = PushFrame(p, [f EXCEPT !.pc = "um_busy"], load(f.master, "refresh"))
               /\ det' = [det EXCEPT ![p] = NoObj]
               /\ held' = [held EXCEPT ![p] = @ \cup {f.master}]
               /\ UNCHANGED <<exc, outcome>>
  /\ UNCHANGED <<envU, sig, budU, tabU, launches, serving, refreshCalls, busyWrites, lastSig>>

\* _run_if_refresh: NotImplementedError in GenericJob; an aggregator job type
\* overrides it
run_if_refresh(p) ==
  /\ At(p, "refresh")
  /\ LET f == Top(p)
     IN IF cfg.aggregator /\ f.name = JobM
          THEN /\ Goto(p, [f EXCEPT !.pc = "agg"])
               /\ serving' = serving \cup {p}
               /\ refreshCalls' = refreshCalls + 1
          ELSE /\ Raise(p, f)
               /\ UNCHANGED <<serving, refreshCalls>>
  /\ UNCHANGED <<envU, sig, budU, tabU, launches, held, busyWrites, lastSig>>

\* the aggregator's refresh handler ends: it leaves the master waiting for more
\* children, finished, or leaves the status as it is
aggregator_refresh(p) ==
  /\ At(p, "agg")
  /\ \E w \in {"suspended", "finished", "none"} :
       IF w = "none" THEN UNCHANGED tabU ELSE StatusWrite(p, w)
  /\ Ret(p)
  /\ serving' = serving \ {p}
  /\ UNCHANGED <<envU, sig, budU, launches, held, refreshCalls, busyWrites, lastSig>>

\* update_master: the read after the refresh handler returned
master_check_busy(p) ==
  /\ At(p, "um_busy")
  /\ LET f == Top(p)
     IN IF ~db[f.master].present THEN Raise(p, f)
        ELSE IF master_pending(get_status(f.master))
          THEN Goto(p, [f EXCEPT !.pc = "um_suspend"])
        ELSE AfterMaster(p, f)
  /\ UNCHANGED <<envU, sig, budU, tabU, ghoU>>

\* update_master: item_update({'status': 'suspended'}, master_id); self.update_master()
master_set_suspended(p) ==
  /\ At(p, "um_suspend")
  /\ TableWrite(Top(p).master, "suspended")
  /\ Goto(p, [Top(p) EXCEPT !.pc = "um_read"])
  /\ UNCHANGED <<envU, sig, budU, ghoU>>

\* update_master: the elif, a second read of the master's status
master_elif(p) ==
  /\ At(p, "um_elif")
  /\ LET f == Top(p)
     IN IF ~db[f.master].present THEN Raise(p, f)
        ELSE IF master_serviced(get_status(f.master))
          THEN Goto(p, [f EXCEPT !.pc = "um_setbusy"])
        ELSE AfterMaster(p, f)
  /\ UNCHANGED <<envU, sig, budU, tabU, ghoU>>

\* update_master: item_update({'status': 'busy'}, master_id)
master_set_busy(p) ==
  /\ At(p, "um_setbusy")
  /\ TableWrite(Top(p).master, "busy")
  /\ AfterMaster(p, Top(p))
  /\ busyWrites' = busyWrites + 1
  /\ UNCHANGED <<envU, sig, budU, launches, held, serving, refreshCalls, lastSig>>

\* ----------------------------------------------- _calculate_successor
\* the query for the records whose parentid is this job's id
calculate_successor(p) ==
  /\ At(p, "succ")
  /\ Goto(p, [Top(p) EXCEPT !.pc = "succ_loop", !.todo = successors(Top(p).id)])
  /\ UNCHANGED <<envU, sig, budU, tabU, ghoU>>

\* the loop: the read of the next successor's status
successor_next(p) ==
  /\ At(p, "succ_loop")
  /\ LET f == Top(p)
     IN IF f.todo = <<>> THEN Ret(p)
        ELSE IF ~db[Head(f.todo)].present THEN Raise(p, f)
        ELSE IF successor_waits(get_status(Head(f.todo)))
          THEN Goto(p, [f EXCEPT !.pc = "succ_load"])
        ELSE Goto(p, [f EXCEPT !.todo = Tail(@)])
  /\ UNCHANGED <<envU, sig, budU, tabU, ghoU>>

\* child = load(child_id)
successor_load(p) ==
  /\ At(p, "succ_load")
  /\ LET f == Top(p)
         c == Head(f.todo)
     IN IF ~db[c].present
          THEN Raise(p, f) /\ UNCHANGED held
          ELSE /\ stack' = PushFrame(p, [f EXCEPT !.pc = "succ_loop", !.todo = Tail(@)],
                                     load(c, "succ_created"))
               /\ det' = [det EXCEPT ![p] = NoObj]
               /\ held' = [held EXCEPT ![p] = @ \cup {c}]
               /\ UNCHANGED <<exc, outcome>>
  /\ UNCHANGED <<envU, sig, budU, tabU, launches, serving, refreshCalls, busyWrites, lastSig>>

\* child.status.created = True; _before_successor_calc(child); child.run()
successor_run(p) ==
  /\ At(p, "succ_created")
  /\ StatusWrite(p, "created")
  /\ Goto(p, [Top(p) EXCEPT !.st = "created", !.pc = "run"])
  /\ UNCHANGED <<envU, sig, budU, ghoU>>

\* ------------------------------------------------ the other handlers
\* _run_if_busy: NotImplementedError
run_if_busy(p) ==
  /\ At(p, "busy")
  /\ Raise(p, Top(p))
  /\ UNCHANGED <<envU, sig, budU, tabU, ghoU>>

\* queue_job_info taking a job that waits in the queue for one the queue lost
queue_job_info_not_running(id) == id \notin Ids \/ queue[id] # "r"

\* queue_job_info(job) is None: the external queue does not list the job
queue_job_info_is_None(id) == id \notin Ids \/ queue[id] = "none"

\* _run_if_submitted and _run_if_running: a queue job the queue has lost is run
\* again, anything else is only reported
run_if_submitted(p) ==
  /\ Active(p) /\ Sched(p)
  /\ Top(p).pc \in {"submitted", "running"}
  /\ LET f == Top(p)
     IN IF cfg.mode[f.name] = "queue" /\ queue_job_info_is_None(f.id)
          THEN Goto(p, [f EXCEPT !.pc = "run", !.ra = TRUE])
          ELSE Ret(p)
  /\ UNCHANGED <<envU, sig, budU, tabU, ghoU>>

\* _run_if_finished: with run_again the job is removed and run anew, else it is
\* read back (from_hdf) and update_master is called
run_if_finished(p) ==
  /\ At(p, "finished")
  /\ LET f == Top(p)
     IN IF f.ra
          THEN /\ db' = remove(db, f.id)
               /\ Goto(p, [f EXCEPT !.id = NoId, !.st = "initialized", !.pc = "run",
                                    !.ra = FALSE])
          ELSE /\ Goto(p, [f EXCEPT !.pc = "um_read", !.cont = "ret"])
               /\ UNCHANGED db
  /\ UNCHANGED <<envU, sig, budU, hist, ghoU>>

\* run_if_non_modal: Popen(['python', 'run_job.py']) and return
run_if_non_modal(p) ==
  /\ At(p, "non_modal")
  /\ LET f == Top(p)
     IN \E bad \in MayFail :
          /\ Fault(bad)
          /\ IF bad
               THEN Raise(p, f) /\ UNCHANGED spawned
               ELSE /\ spawned' = spawned \cup {f.id}
                    /\ Ret(p)
  /\ UNCHANGED <<cfg, auxU, qsub, rec, nextId, clock, errmsg, queue, wjob, sig, calls, tabU, ghoU>>

\* what run_if_scheduler knows of a submission command that was started: Popen does
\* not look at its exit status, and with return_job_id its output becomes queue_id
Submission(accepted, return_job_id) ==
  [exit |-> IF accepted THEN "ok" ELSE "failed",
   queue_id |-> IF ~return_job_id THEN "none" ELSE IF accepted THEN "id" ELSE "output"]
NoSubmission == [exit |-> "none", queue_id |-> "none"]

\* run_if_scheduler: the submission command is started, which may fail (the
\* exception leaves run_if_scheduler); the command accepts or rejects the job
run_if_scheduler(p) ==
  /\ At(p, "scheduler")
  /\ LET f == Top(p)
     IN \E bad \in MayFail, started \in BOOLEAN, return_job_id \in BOOLEAN :
          /\ Fault(bad)
          /\ IF (bad /\ ~started) \/ f.id \notin Ids
               THEN Raise(p, f) /\ UNCHANGED <<queue, qsub>>
               ELSE /\ queue' = IF bad THEN queue ELSE [queue EXCEPT ![f.id] = "waiting"]
                    /\ qsub' = [qsub EXCEPT ![f.id] = Submission(~bad, return_job_id)]
                    /\ Ret(p)
  /\ UNCHANGED <<cfg, auxU, rec, nextId, clock, errmsg, spawned, wjob, sig, calls, tabU, ghoU>>

\* --------------------------------------------------- wrapper processes
FreeSlot(q) == q \in Wrappers /\ wjob[q] = NoId /\ \A r \in Wrappers : r < q => wjob[r] # NoId

\* run_job.py: JobWrapper loads the job by its id and calls run_if_modal on it
wrapper_start(q, id) ==
  /\ FreeSlot(q) /\ NoLocal
  /\ id \in spawned \/ queue[id] = "waiting"
  /\ db[id].present
  /\ spawned' = spawned \ {id}
  /\ queue' = IF id \in spawned THEN queue ELSE [queue EXCEPT ![id] = "r"]
  /\ wjob' = [wjob EXCEPT ![q] = id]
  /\ stack' = [stack EXCEPT ![q] = <<load(id, "modal")>>]
  /\ held' = [held EXCEPT ![q] = {id}]
  /\ outcome' = [outcome EXCEPT ![q] = "none"]
  /\ UNCHANGED <<cfg, auxU, qsub, rec, nextId, clock, errmsg, det, exc, sig, budU, tabU, launches, serving,
                 refreshCalls, busyWrites, lastSig>>

\* the wrapper process ends; a queue job leaves the queue with it
wrapper_exit(q) ==
  /\ q \in Wrappers /\ wjob[q] # NoId /\ Idle(q) /\ NoLocal
  /\ queue' = IF queue[wjob[q]] = "r" THEN [queue EXCEPT ![wjob[q]] = "none"] ELSE queue
  /\ wjob' = [wjob EXCEPT ![q] = NoId]
  /\ det' = [det EXCEPT ![q] = NoObj]
  /\ held' = [held EXCEPT ![q] = {}]
  /\ outcome' = [outcome EXCEPT ![q] = "none"]
  /\ UNCHANGED <<cfg, auxU, qsub, rec, nextId, clock, errmsg, spawned, stack, exc, sig, budU, tabU, launches,
                 serving, refreshCalls, busyWrites, lastSig>>

\* the scheduler drops a waiting job
queue_evict(id) ==
  /\ queue[id] = "waiting" /\ NoLocal
  /\ events < cfg.events
  /\ events' = events + 1
  /\ queue' = [queue EXCEPT ![id] = "none"]
  /\ UNCHANGED <<cfg, auxU, qsub, rec, db, nextId, clock, errmsg, spawned, stack, det, exc, sig, outcome, calls,
                 hist, launches, wjob, held, serving, refreshCalls, busyWrites, lastSig>>

\* ------------------------------------------------------------ reconcile
\* refresh_job_status_based_on_job_id(job_id, que_mode=True): the statuses it acts on
reconcile_applies(st) == st \in {"running", "submitted"}

\* refresh_job_status_based_on_job_id aborting only a job the queue does not list
reconcile_aborts_unlisted(q) == q = "none"

\* refresh_job_status_based_on_job_id: the record is written unless the queue
\* lists the job as running ('r')
reconcile_aborts(q) == q # "r"

\* refresh_job_status_based_on_job_id: get_item_by_id(job_id)['status'] is read;
\* it is called in a session that makes none of the run() calls
reconcile(p, id) ==
  /\ p \in Users /\ p > cfg.users /\ Idle(p) /\ NoLocal
  /\ calls < cfg.calls
  /\ db[id].present
  /\ calls' = calls + 1
  /\ rec' = [rec EXCEPT ![p] = [id |-> id, st |-> db[id].status]]
  /\ UNCHANGED <<cfg, auxU, qsub, nextId, clock, errmsg, queue, spawned, wjob, stack, det, exc, sig,
                 outcome, events, tabU, ghoU>>

\* refresh_job_status_based_on_job_id: for the statuses it acts on
\* queue_id_table(job_id), a failing query counting as no listing, then
\* item_update; for any other status it returns
reconcile_update(p) ==
  /\ p \in Users /\ rec[p] # NoRead /\ NoLocal
  /\ IF reconcile_applies(rec[p].st)
       THEN \E bad \in MayFail :
              /\ Fault(bad)
              /\ IF bad \/ reconcile_aborts(queue[rec[p].id])
                   THEN TableWrite(rec[p].id, "aborted")
                   ELSE UNCHANGED tabU
       ELSE UNCHANGED <<events, tabU>>
  /\ rec' = [rec EXCEPT ![p] = NoRead]
  /\ UNCHANGED <<cfg, auxU, qsub, nextId, clock, errmsg, queue, spawned, wjob, stack, det, exc, sig,
                 outcome, calls, ghoU>>

\* ---------------------------------------------- exceptions and signals
\* an exception leaves the top frame: each enclosing run() of the frame's object
\* calls drop_status_to_aborted (here its refresh_job_status) and re-raises;
\* then the frame is gone
unwind(p) ==
  /\ exc[p] = "raise" /\ sig[p] = "none" /\ stack[p] # <<>> /\ Sched(p)
  /\ LET f == Top(p)
     IN IF f.tries > 0
          THEN /\ stack' = SetTop(p, [f EXCEPT !.st = refresh_job_status(f.id, f.st)])
               /\ exc' = [exc EXCEPT ![p] = "drop"]
               /\ UNCHANGED <<det, outcome>>
          ELSE /\ stack' = PopFrame(p)
               /\ det' = DetAfterPop(p)
               /\ exc' = IF Len(stack[p]) = 1 THEN [exc EXCEPT ![p] = "none"] ELSE exc
               /\ outcome' = IF Len(stack[p]) = 1 THEN [outcome EXCEPT ![p] = "raised"]
                             ELSE outcome
  /\ UNCHANGED <<envU, sig, budU, tabU, ghoU>>

\* drop_status_to_aborted in run()'s except clauses: the write, then raise
drop_status_to_aborted(p) ==
  /\ exc[p] = "drop" /\ sig[p] = "none" /\ Sched(p)
  /\ LET f == Top(p)
     IN IF must_abort(f.st)
          THEN /\ StatusWrite(p, "aborted")
               /\ stack' = SetTop(p, [f EXCEPT !.st = "aborted", !.tries = @ - 1])
          ELSE /\ UNCHANGED tabU
               /\ stack' = SetTop(p, [f EXCEPT !.tries = @ - 1])
  /\ exc' = [exc EXCEPT ![p] = "raise"]
  /\ UNCHANGED <<envU, det, sig, outcome, budU, ghoU>>

\* the object the process-wide handler is bound to: the last one constructed
HasTarget(p) == stack[p] # <<>> \/ det[p] # NoObj
Target(p) == IF det[p] # NoObj \/ stack[p] = <<>> THEN det[p] ELSE ObjOf(Top(p))

SetTarget(p, st) ==
  IF det[p] # NoObj \/ stack[p] = <<>>
    THEN /\ det' = [det EXCEPT ![p].st = st]
         /\ UNCHANGED stack
    ELSE /\ stack' = SetTop(p, [Top(p) EXCEPT !.st = st])
         /\ UNCHANGED det

\* signal_intercept: a signal arrives; drop_status_to_aborted starts with
\* refresh_job_status
signal_intercept(p) ==
  /\ events < cfg.events
  /\ sig[p] = "none" /\ HasTarget(p) /\ Sched(p)
  /\ events' = events + 1
  /\ sig' = [sig EXCEPT ![p] = "write"]
  /\ SetTarget(p, refresh_job_status(Target(p).id, Target(p).st))
  /\ UNCHANGED <<envU, exc, outcome, calls, tabU, ghoU>>

\* signal_intercept: the test and status.aborted = True; the process goes on
signal_abort(p) ==
  /\ sig[p] = "write" /\ Sched(p)
  /\ LET t == Target(p)
     IN /\ IF must_abort(t.st)
             THEN SetTarget(p, "aborted") /\ TableWrite(t.id, "aborted")
             ELSE UNCHANGED <<stack, det, tabU>>
        /\ lastSig' = [id |-> t.id, read |-> t.st, wrote |-> must_abort(t.st)]
  /\ sig' = [sig EXCEPT ![p] = "none"]
  /\ UNCHANGED <<envU, exc, outcome, budU, launches, held, serving, refreshCalls, busyWrites>>

\* ------------------------------------------------------------ Project
\* Project.view_mode that never reports viewer mode
view_mode_off == FALSE

\* Project.view_mode: db.viewer_mode
view_mode == viewer_mode

\* db.item_update({'status': s}, id): a read-only connection refuses the write
item_update(d, id, s) == IF viewer_mode THEN d ELSE set_status(d, id, s)

\* db.delete_item(id), also at the end of JobCore.remove: refused when read-only
delete_item(d, id) == IF viewer_mode THEN d ELSE remove(d, id)

\* the exception of a refused database access
Refused == IF viewer_mode THEN "PermissionError" ELSE "none"

\* what a Project operation leaves alone besides the table, the files and dest
projU == <<coreU, nextId, hist, run_mode, assigned, job, new_ham, h5, sus, child>>

switch_to_viewer_mode ==
  /\ viewer_mode' = TRUE
  /\ result' = [op |-> "switch_to_viewer_mode", err |-> "none"]
  /\ UNCHANGED <<projU, db, files, dest>>

switch_to_user_mode ==
  /\ viewer_mode' = FALSE
  /\ result' = [op |-> "switch_to_user_mode", err |-> "none"]
  /\ UNCHANGED <<projU, db, files, dest>>

\* copy_to(destination): every job and every file is copied
copy_to ==
  /\ IF ~view_mode
       THEN /\ dest' = [jobs |-> dest.jobs \cup {db[i].name : i \in {j \in Ids : db[j].present}},
                          files |-> dest.files \cup files]
            /\ result' = [op |-> "copy_to", err |-> "none"]
       ELSE /\ result' = [op |-> "copy_to", err |-> "EnvironmentError"]
            /\ UNCHANGED dest
  /\ UNCHANGED <<projU, viewer_mode, db, files>>

\* move_to(destination): every job and every file leaves the project
move_to ==
  /\ IF ~view_mode
       THEN /\ dest' = [jobs |-> dest.jobs \cup {db[i].name : i \in {j \in Ids : db[j].present}},
                          files |-> dest.files \cup files]
            /\ db' = [i \in Ids |-> NoRec]
            /\ files' = {}
            /\ result' = [op |-> "move_to", err |-> "none"]
       ELSE /\ result' = [op |-> "move_to", err |-> "EnvironmentError"]
            /\ UNCHANGED <<db, files, dest>>
  /\ UNCHANGED <<projU, viewer_mode>>

\* remove_file(file_name): os.remove
remove_file(f) ==
  /\ IF ~view_mode
       THEN /\ files' = files \ {f}
            /\ result' = [op |-> "remove_file",
                          err |-> IF f \in files THEN "none" ELSE "FileNotFoundError"]
       ELSE /\ result' = [op |-> "remove_file", err |-> "EnvironmentError"]
            /\ UNCHANGED files
  /\ UNCHANGED <<projU, viewer_mode, db, dest>>

\* remove_job(job_specifier): job.remove() for a job the project has
remove_job(id) ==
  /\ IF ~view_mode
       THEN /\ db' = IF db[id].present THEN delete_item(db, id) ELSE db
            /\ result' = [op |-> "remove_job", err |-> IF db[id].present THEN Refused ELSE "none"]
       ELSE /\ result' = [op |-> "remove_job", err |-> "EnvironmentError"]
            /\ UNCHANGED db
  /\ UNCHANGED <<projU, viewer_mode, files, dest>>

\* remove_jobs(): remove_job for every id, its exceptions being logged only
remove_jobs ==
  /\ IF ~view_mode
       THEN /\ db' = [i \in Ids |-> delete_item(db, i)[i]]
            /\ result' = [op |-> "remove_jobs", err |-> "none"]
       ELSE /\ result' = [op |-> "remove_jobs", err |-> "EnvironmentError"]
            /\ UNCHANGED db
  /\ UNCHANGED <<projU, viewer_mode, files, dest>>

\* Project.remove(): remove_jobs(recursive=True), then the files
remove_project ==
  /\ IF ~view_mode
       THEN /\ db' = [i \in Ids |-> delete_item(db, i)[i]]
            /\ files' = {}
            /\ result' = [op |-> "remove", err |-> "none"]
       ELSE /\ result' = [op |-> "remove", err |-> "EnvironmentError"]
            /\ UNCHANGED <<db, files>>
  /\ UNCHANGED <<projU, viewer_mode, dest>>

\* set_job_status(job_specifier, status): item_update on the job's record
set_job_status(id, s) ==
  /\ db[id].present
  /\ db' = item_update(db, id, s)
  /\ result' = [op |-> "set_job_status", err |-> Refused]
  /\ UNCHANGED <<projU, viewer_mode, files, dest>>

\* queue_delete_job(item): remove_job for an id, item.remove() for a job object
queue_delete_job(id, object) ==
  /\ db[id].present
  /\ IF ~object /\ view_mode
       THEN /\ result' = [op |-> "queue_delete_job", err |-> "EnvironmentError"]
            /\ UNCHANGED db
       ELSE /\ db' = delete_item(db, id)
            /\ result' = [op |-> "queue_delete_job", err |-> Refused]
  /\ UNCHANGED <<projU, viewer_mode, files, dest>>

\* refresh_job_status_based_on_job_id(job_id) called in one piece
refresh_job_status_based_on_job_id(id) ==
  /\ db[id].present
  /\ IF reconcile_applies(db[id].status) /\ reconcile_aborts(queue[id])
       THEN /\ db' = item_update(db, id, "aborted")
            /\ result' = [op |-> "refresh_job_status_based_on_job_id", err |-> Refused]
       ELSE /\ result' = [op |-> "refresh_job_status_based_on_job_id", err |-> "none"]
            /\ UNCHANGED db
  /\ UNCHANGED <<projU, viewer_mode, files, dest>>

\* ------------------------------------------------------------ restart()
\* a job object as restart() sees it: job_id, parent_id, _restart_file_list and
\* the status it has in memory while it has no id
Job(n, id) == [name |-> n, id |-> id, parent |-> NoId, rfl |-> <<>>, st |-> "initialized"]
NoHam == Job(0, NoId)

\* job.status: the record's status once the job has an id
status_of(j) == IF j.id # NoId /\ db[j.id].present THEN db[j.id].status ELSE j.st

\* copy(): a new object read back from the HDF5 file, _job_id = None
copy(j) == [j EXCEPT !.id = NoId]

\* job = project.load(id): the job object of a record, with the
\* restart_file_list from_hdf finds in the file
load_job(id) ==
  /\ new_ham = NoHam /\ db[id].present /\ job.id # id /\ sus.pc = "idle"
  /\ job' = [Job(db[id].name, id) EXCEPT !.parent = db[id].parentid, !.st = db[id].status,
                                         !.rfl = h5[db[id].name].rfl]
  /\ UNCHANGED <<coreU, db, nextId, hist, run_mode, assigned, viewer_mode, files, dest, result,
                 new_ham, h5, sus, child>>

\* job.restart_file_list = [f]: the setter appends
set_restart_file_list(f) ==
  /\ Len(job.rfl) < MaxFiles
  /\ job' = [job EXCEPT !.rfl = Append(@, f)]
  /\ UNCHANGED <<coreU, db, nextId, hist, run_mode, assigned, viewer_mode, files, dest, result,
                 new_ham, h5, sus, child>>

\* restart(job_type): a job without id is saved by _create_job_structure first;
\* the new job is a copy (same job type) or comes from create_job; then
\* parent_id = self.job_id and _restart_file_list = list()
restart(same_type) ==
  /\ new_ham = NoHam
  /\ LET saving == job.id = NoId
         id == IF saving THEN nextId ELSE job.id
         saved == [job EXCEPT !.id = id, !.st = IF saving THEN "created" ELSE @]
         \* job_name = "<job_name>_restart": a name no other job has
         job_name == 0 - job.name
         made == IF same_type THEN [copy(saved) EXCEPT !.name = job_name]
                 ELSE Job(job_name, NoId)
     IN /\ saving => nextId <= MaxId
        /\ db' = IF saving
                   THEN [db EXCEPT ![nextId] = Rec(job.name, "created", NoId, job.parent, clock)]
                   ELSE db
        /\ hist' = IF saving THEN [hist EXCEPT ![nextId] = <<"initialized", "created">>]
                   ELSE hist
        /\ nextId' = IF saving THEN nextId + 1 ELSE nextId
        /\ job' = saved
        /\ new_ham' = [made EXCEPT !.parent = id, !.rfl = <<>>]
        /\ h5' = IF saving THEN [h5 EXCEPT ![job.name] = [rfl |-> job.rfl, by |-> 0]] ELSE h5
  /\ UNCHANGED <<coreU, run_mode, assigned, viewer_mode, files, dest, result, sus, child>>

\* ------------------------------------------------------------ suspend()
\* suspend() writing the status before it stores the object
suspend_marking_first ==
  /\ \/ /\ sus.pc = "idle" /\ job.name \in Names /\ sus.n < MaxSuspend
        /\ db' = set_status(db, job.id, "suspended")
        /\ hist' = Push(hist, job.id, "suspended")
        /\ job' = [job EXCEPT !.st = "suspended"]
        /\ sus' = [sus EXCEPT !.pc = "to_hdf", !.n = @ + 1,
                              !.marked = IF job.id \in Ids THEN [@ EXCEPT ![job.id] = sus.n + 1]
                                         ELSE @]
        /\ UNCHANGED <<h5, result>>
     \/ /\ sus.pc = "to_hdf"
        /\ h5' = [h5 EXCEPT ![job.name] = [rfl |-> job.rfl, by |-> sus.n]]
        /\ sus' = [sus EXCEPT !.pc = "status"]
        /\ UNCHANGED <<db, hist, job, result>>
     \/ /\ sus.pc = "status"
        /\ job' = NoHam
        /\ result' = [op |-> "suspend", err |-> "AttributeError"]
        /\ sus' = [sus EXCEPT !.pc = "idle"]
        /\ UNCHANGED <<db, hist, h5>>
  /\ UNCHANGED <<coreU, nextId, run_mode, assigned, viewer_mode, files, dest, new_ham, child>>

\* suspend(), statement by statement: to_hdf() stores the object in its HDF5
\* file; status.suspended = True writes the record of a job that has an id;
\* clear_job() deletes the attributes of the object and, deleting _status a
\* second time, raises AttributeError
suspend ==
  /\ \/ /\ sus.pc = "idle" /\ job.name \in Names /\ sus.n < MaxSuspend
        /\ h5' = [h5 EXCEPT ![job.name] = [rfl |-> job.rfl, by |-> sus.n + 1]]
        /\ sus' = [sus EXCEPT !.pc = "to_hdf", !.n = @ + 1]
        /\ UNCHANGED <<db, hist, job, result>>
     \/ /\ sus.pc = "to_hdf"
        /\ db' = set_status(db, job.id, "suspended")
        /\ hist' = Push(hist, job.id, "suspended")
        /\ job' = [job EXCEPT !.st = "suspended"]
        /\ sus' = [sus EXCEPT !.pc = "status",
                              !.marked = IF job.id \in Ids THEN [@ EXCEPT ![job.id] = sus.n]
                                         ELSE @]
        /\ UNCHANGED <<h5, result>>
     \/ /\ sus.pc = "status"
        /\ job' = NoHam
        /\ result' = [op |-> "suspend", err |-> "AttributeError"]
        /\ sus' = [sus EXCEPT !.pc = "idle"]
        /\ UNCHANGED <<db, hist, h5>>
  /\ UNCHANGED <<coreU, nextId, run_mode, assigned, viewer_mode, files, dest, new_ham, child>>

\* another process examines the record id as _calculate_successor does: it reads
\* the status and, if that is suspended, loads the job from its HDF5 file
load_child(id) ==
  /\ \/ /\ child.pc = "idle" /\ db[id].present
        /\ child' = [child EXCEPT !.pc = "read", !.id = id, !.seen = db[id].status,
                                  !.k = sus.marked[id]]
     \/ /\ child.pc = "read" /\ child.id = id
        /\ child' = IF child.seen = "suspended" /\ db[id].present
                      THEN [child EXCEPT !.pc = "loaded", !.obj = h5[db[id].name]]
                      ELSE [child EXCEPT !.pc = "idle"]
     \/ /\ child.pc = "loaded" /\ child.id = id
        /\ child' = [child EXCEPT !.pc = "idle"]
  /\ UNCHANGED <<coreU, db, nextId, hist, run_mode, assigned, viewer_mode, files, dest, result,
                 job, new_ham, h5, sus>>

\* ------------------------------------------------------------ Runmode
\* the flags a Runmode object keeps: one per mode string
ModeFlags == RunModes \cup {"thread"}

\* Runmode._reset_mode: every flag False
reset_mode == [m \in ModeFlags |-> FALSE]

\* a mode setter that switches the flag on and leaves the others as they are
set_mode_keeping(flags, m) == [flags EXCEPT ![m] = TRUE]

\* Runmode.mode = m: the flags are reset, then the flag of m is switched on
set_mode(flags, m) == [reset_mode EXCEPT ![m] = TRUE]

\* Runmode.<m> = value: True selects the mode m
set_flag(flags, m, value) == IF value THEN set_mode(flags, m) ELSE flags

\* _run_if_created: the if/elif chain over the flags of server.run_mode
created_strategy(flags) ==
  IF flags["manual"] THEN "manual"
  ELSE IF flags["modal"] THEN "modal"
  ELSE IF flags["non_modal"] \/ flags["thread"] THEN "non_modal"
  ELSE IF flags["queue"] THEN "scheduler"
  ELSE "none"

\* run_mode.mode = m
assign_mode(m) ==
  /\ Len(assigned) < MaxAssign
  /\ run_mode' = set_mode(run_mode, m)
  /\ assigned' = Append(assigned, [by |-> "mode", mode |-> m])

\* run_mode.<m> = True
assign_flag(m) ==
  /\ Len(assigned) < MaxAssign
  /\ run_mode' = set_flag(run_mode, m, TRUE)
  /\ assigned' = Append(assigned, [by |-> "flag", mode |-> m])

\* ------------------------------------------------------------ the users
\* a user session gets the job (create_job for a job the table does not know,
\* load otherwise) and calls run(run_again, repair) on it. The scenarios explored:
\* sessions are taken in order; two sessions run one job each (A and B); the master
\* is run by hand only in a single session; a job that is being run is run again
\* only once it has a record; run_again and repair are used when nothing else is
\* in progress.
UserRun(p, n, ra, rep) ==
  /\ p \in Users /\ p <= cfg.users /\ Idle(p) /\ NoLocal
  /\ \A u \in Users : u < p => ~Idle(u)
  /\ calls < cfg.calls
  /\ n \in {JobA, JobB} \/ (n = JobM /\ cfg.master[JobA] # NoId /\ cfg.users = 1)
  /\ cfg.users = 2 => n = (IF p = 1 THEN JobA ELSE JobB)
  /\ Busy(n) => check_if_job_exists(n)
  /\ (ra \/ rep) => Quiescent
  /\ calls' = calls + 1
  /\ LET id == get_job_id(n)
         f == IF id # NoId THEN load(id, "run")
              ELSE Frame(n, NoId, "initialized", cfg.master[n], cfg.parent[n], "run")
     IN /\ stack' = [stack EXCEPT ![p] = <<[f EXCEPT !.ra = ra, !.rep = rep]>>]
        /\ held' = [held EXCEPT ![p] = IF id # NoId THEN @ \cup {id} ELSE @]
  /\ det' = [det EXCEPT ![p] = NoObj]
  /\ outcome' = [outcome EXCEPT ![p] = "none"]
  /\ UNCHANGED <<envU, exc, sig, events, tabU, launches, serving, refreshCalls,
                 busyWrites, lastSig>>
\* the session calls run(run_again, repair) once more on the job object of its
\* last call: the object keeps the id and the status it has in memory
rerun(p, ra, rep) ==
  /\ p \in Users /\ p <= cfg.users /\ Idle(p) /\ NoLocal
  /\ calls < cfg.calls
  /\ det[p] # NoObj
  /\ calls' = calls + 1
  /\ LET o == det[p]
         f == Frame(o.name, o.id, o.st, cfg.master[o.name], cfg.parent[o.name], "run")
     IN stack' = [stack EXCEPT ![p] = <<[f EXCEPT !.ra = ra, !.rep = rep]>>]
  /\ det' = [det EXCEPT ![p] = NoObj]
  /\ outcome' = [outcome EXCEPT ![p] = "none"]
  /\ UNCHANGED <<envU, exc, sig, events, tabU, ghoU>>

\* ------------------------------------------------------- specification
Cfg(ma, mb, par, mas, agg, us, ev, ca) ==
  [mode |-> [n \in Names |-> IF n = JobA THEN ma ELSE IF n = JobB THEN mb ELSE "modal"],
   parent |-> [n \in Names |-> IF n = JobB THEN par ELSE NoId],
   master |-> [n \in Names |-> IF n = JobM THEN NoId ELSE mas],
   aggregator |-> agg, users |-> us, events |-> ev, calls |-> ca, start |-> "created"]

\* the statuses written to a record on its way to status s
Path(s) ==
  CASE s = "created" -> <<"initialized", "created">>
    [] s = "running" -> <<"initialized", "created", "submitted", "running">>
    [] s = "collect" -> <<"initialized", "created", "submitted", "running", "collect">>
    [] s = "busy" -> <<"suspended", "refresh", "busy">>

\* the scenarios: unrelated jobs in each run mode; a chain B after A; two
\* children A and B of the master M, run by one session or by two concurrent
\* sessions (which are then left undisturbed); a record A left behind in running,
\* collect or busy by a process that was killed
Configs ==
  {Cfg("modal", m, NoId, NoId, TRUE, 1, MaxEvents, MaxCalls) : m \in RunModes}
    \cup {Cfg("modal", "modal", 1, NoId, TRUE, 1, MaxEvents, MaxCalls),
          Cfg("non_modal", "modal", 1, NoId, TRUE, 1, MaxEvents - 1, MaxCalls)}
    \cup {Cfg("modal", "modal", NoId, 2, TRUE, 1, MaxEvents, MaxCalls),
          Cfg("modal", "modal", NoId, 2, FALSE, 1, MaxEvents - 1, MaxCalls + 1),
          Cfg("modal", "modal", NoId, 2, TRUE, 2, MaxEvents - 1, MaxCalls)}
    \cup {[Cfg("modal", "modal", NoId, NoId, FALSE, 1, MaxEvents - 1, MaxCalls - 1)
             EXCEPT !.start = s] : s \in {"running", "collect", "busy"}}

\* A was saved by _create_job_structure (id 1, created unless the scenario says
\* otherwise) and the aggregator M is suspended (id 2); B is not in the table yet
Start(C) ==
  /\ cfg \in C
  /\ db = [i \in Ids |-> IF i = 1 THEN Rec(JobA, cfg.start, cfg.master[JobA], NoId, 0)
                         ELSE IF i = 2 THEN Rec(JobM, "suspended", NoId, NoId, 0)
                         ELSE NoRec]
  /\ hist = [i \in Ids |-> IF i = 1 THEN Path(cfg.start)
                           ELSE IF i = 2 THEN <<"suspended">> ELSE <<>>]
  /\ nextId = 3
  /\ clock = 0
  /\ errmsg = [n \in Names |-> FALSE]
  /\ queue = [i \in Ids |-> "none"]
  /\ spawned = {}
  /\ stack = [p \in Procs |-> <<>>]
  /\ det = [p \in Procs |-> NoObj]
  /\ exc = [p \in Procs |-> "none"]
  /\ sig = [p \in Procs |-> "none"]
  /\ outcome = [p \in Procs |-> "none"]
  /\ calls = 0 /\ events = 0
  /\ rec = [u \in Users |-> NoRead]
  /\ launches = [n \in Names |-> 0]
  /\ wjob = [q \in Wrappers |-> NoId]
  /\ held = [p \in Procs |-> {}]
  /\ serving = {}
  /\ refreshCalls = 0
  /\ busyWrites = 0
  /\ lastSig = [id |-> NoId, read |-> "initialized", wrote |-> FALSE]
  /\ run_mode = set_mode(reset_mode, "modal")
  /\ assigned = <<>>
  /\ viewer_mode = FALSE
  /\ files = {"input.yml", "notes.txt"}
  /\ dest = [jobs |-> {}, files |-> {}]
  /\ result = [op |-> "none", err |-> "none"]
  /\ job = Job(JobB, NoId)
  /\ new_ham = NoHam
  /\ qsub = [i \in Ids |-> NoSubmission]
  /\ h5 = [n \in Names |-> [rfl |-> <<>>, by |-> 0]]
  /\ sus = [pc |-> "idle", n |-> 0, marked |-> [i \in Ids |-> 0]]
  /\ child = [pc |-> "idle", id |-> NoId, seen |-> "initialized", k |-> 0,
              obj |-> [rfl |-> <<>>, by |-> 0]]
Init == Start(Configs)

\* the steps of run() and of the handlers of a job that runs in the caller's process
Lifecycle(p) ==
  \/ run(p) \/ run_if_new(p) \/ save(p) \/ create_job_structure(p)
  \/ calculate_predecessor(p)
  \/ run_if_created(p) \/ run_if_modal(p) \/ modal_timestart(p) \/ modal_exec(p)
  \/ run_if_collect(p) \/ collect_finished(p)
  \/ calculate_successor(p) \/ successor_next(p)
  \/ run_if_finished(p)

\* the steps of update_master and of the master's refresh handler
MasterWake(p) ==
  \/ update_master(p) \/ master_set_refresh(p) \/ master_load(p) \/ run_if_refresh(p)
  \/ aggregator_refresh(p) \/ master_check_busy(p) \/ master_set_suspended(p)
  \/ master_elif(p) \/ master_set_busy(p)

\* a step of the code a process is executing
Step(p) ==
  \/ Lifecycle(p)
  \/ MasterWake(p)
  \/ predecessor_suspend(p) \/ predecessor_run(p)
  \/ successor_load(p) \/ successor_run(p)
  \/ run_if_busy(p) \/ run_if_submitted(p)
  \/ run_if_non_modal(p) \/ run_if_scheduler(p)
  \/ unwind(p) \/ drop_status_to_aborted(p)
  \/ signal_abort(p)

\* the users call run()
Calls ==
  \E p \in Users, n \in Names, ra \in BOOLEAN, rep \in BOOLEAN :
    ~(ra /\ rep) /\ UserRun(p, n, ra, rep)

\* what the users, the operating system and the scheduler do
Environment ==
  \/ Calls
  \/ \E p \in Users, id \in Ids : reconcile(p, id)
  \/ \E p \in Users : reconcile_update(p)
  \/ \E p \in Procs : signal_intercept(p)
  \/ \E q \in Wrappers, id \in Ids : wrapper_start(q, id)
  \/ \E q \in Wrappers : wrapper_exit(q)
  \/ \E id \in Ids : queue_evict(id)

Next == Environment \/ \E p \in Procs : Step(p)

Spec == Init /\ [][Next]_vars

\* Two children of one master finish in two sessions that nothing disturbs; a
\* session that has code to execute goes on executing it.
WakeInit == Init /\ cfg.users = 2
WakeNext == Calls \/ \E p \in Users : Lifecycle(p) \/ MasterWake(p)
WakeSpec == WakeInit /\ [][WakeNext]_vars /\ \A p \in Users : WF_vars(Lifecycle(p) \/ MasterWake(p))

\* A Runmode object the user assigns to before run() is called
RunmodeInit == Init /\ cfg = Cfg("modal", "modal", NoId, NoId, TRUE, 1, MaxEvents, MaxCalls)
RunmodeNext ==
  /\ \E m \in RunModes : assign_mode(m) \/ assign_flag(m)
  /\ UNCHANGED <<coreU, db, nextId, hist, viewer_mode, files, dest, result, job, new_ham, h5, sus,
                 child>>
RunmodeSpec == RunmodeInit /\ [][RunmodeNext]_vars

\* A user works on the project: A is created, M suspended
ProjectInit == Init /\ cfg = Cfg("modal", "modal", NoId, NoId, TRUE, 1, MaxEvents, MaxCalls)
ProjectNext ==
  \/ switch_to_viewer_mode \/ switch_to_user_mode
  \/ copy_to \/ move_to \/ remove_jobs \/ remove_project
  \/ \E f \in {"input.yml", "notes.txt"} : remove_file(f)
  \/ \E id \in Ids : remove_job(id)
  \/ \E id \in Ids, s \in {"submitted", "running", "finished"} : set_job_status(id, s)
  \/ \E id \in Ids, object \in BOOLEAN : queue_delete_job(id, object)
  \/ \E id \in Ids : refresh_job_status_based_on_job_id(id)
ProjectSpec == ProjectInit /\ [][ProjectNext]_vars

\* restart() on the new job B or on a loaded job, whose status moves on meanwhile
RestartInit == Init /\ cfg = Cfg("modal", "modal", NoId, NoId, TRUE, 1, MaxEvents, MaxCalls)
RestartNext ==
  \/ \E same_type \in BOOLEAN : restart(same_type)
  \/ \E id \in Ids : load_job(id)
  \/ \E f \in {"restart.h5", "wave.dat"} : set_restart_file_list(f)
  \/ \E id \in Ids, s \in {"running", "finished", "aborted"} : set_job_status(id, s)
RestartSpec == RestartInit /\ [][RestartNext]_vars

\* One process loads jobs, changes their restart_file_list and suspends them,
\* while another one examines the records
SuspendInit == Init /\ cfg = Cfg("modal", "modal", NoId, NoId, TRUE, 1, MaxEvents, MaxCalls)
SuspendNext ==
  \/ suspend
  \/ \E id \in Ids : load_child(id)
  \/ \E id \in Ids : load_job(id)
  \/ \E f \in {"restart.h5", "wave.dat"} :
       sus.pc = "idle" /\ job.name \in Names /\ set_restart_file_list(f)
SuspendSpec == SuspendInit /\ [][SuspendNext]_vars

\* Two jobs have A as their parent: M (id 2), which ran before and is suspended,
\* finished or aborted, and B, which a session runs now. No signal arrives.
WaitingInit ==
  /\ cfg \in {Cfg("modal", "modal", 1, NoId, FALSE, us, ev, MaxCalls) :
                us \in Users, ev \in 0..MaxEvents}
  /\ \E s \in {"suspended", "finished", "aborted"} :
       /\ db = [i \in Ids |-> IF i = 1 THEN Rec(JobA, "created", NoId, NoId, 0)
                              ELSE IF i = 2 THEN Rec(JobM, s, NoId, 1, 0)
                              ELSE NoRec]
       /\ hist = [i \in Ids |-> IF i = 1 THEN Path("created")
                                ELSE IF i = 2 THEN <<s>> ELSE <<>>]
  /\ nextId = 3
  /\ clock = 0
  /\ errmsg = [n \in Names |-> FALSE]
  /\ queue = [i \in Ids |-> "none"]
  /\ spawned = {}
  /\ stack = [p \in Procs |-> <<>>]
  /\ det = [p \in Procs |-> NoObj]
  /\ exc = [p \in Procs |-> "none"]
  /\ sig = [p \in Procs |-> "none"]
  /\ outcome = [p \in Procs |-> "none"]
  /\ calls = 0 /\ events = 0
  /\ rec = [u \in Users |-> NoRead]
  /\ launches = [n \in Names |-> 0]
  /\ wjob = [q \in Wrappers |-> NoId]
  /\ held = [p \in Procs |-> {}]
  /\ serving = {}
  /\ refreshCalls = 0
  /\ busyWrites = 0
  /\ lastSig = [id |-> NoId, read |-> "initialized", wrote |-> FALSE]
  /\ run_mode = set_mode(reset_mode, "modal")
  /\ assigned = <<>>
  /\ viewer_mode = FALSE
  /\ files = {"input.yml", "notes.txt"}
  /\ dest = [jobs |-> {}, files |-> {}]
  /\ result = [op |-> "none", err |-> "none"]
  /\ job = Job(JobB, NoId)
  /\ new_ham = NoHam
  /\ qsub = [i \in Ids |-> NoSubmission]
  /\ h5 = [n \in Names |-> [rfl |-> <<>>, by |-> 0]]
  /\ sus = [pc |-> "idle", n |-> 0, marked |-> [i \in Ids |-> 0]]
  /\ child = [pc |-> "idle", id |-> NoId, seen |-> "initialized", k |-> 0,
              obj |-> [rfl |-> <<>>, by |-> 0]]
SuccessorNext ==
  \/ Calls
  \/ \E p \in Users :
       \/ Lifecycle(p) \/ update_master(p)
       \/ predecessor_suspend(p) \/ predecessor_run(p)
       \/ successor_load(p) \/ successor_run(p)
       \/ unwind(p) \/ drop_status_to_aborted(p)
\* one session: A is run by B's predecessor check or by the session itself
SuccessorInit == WaitingInit /\ cfg.users = 1 /\ cfg.events = 0
SuccessorSpec == SuccessorInit /\ [][SuccessorNext]_vars
\* one session; validate_ready_to_run, write_input and the workload may fail
ScanInit == WaitingInit /\ cfg.users = 1 /\ cfg.events = MaxEvents
ScanSpec == ScanInit /\ [][SuccessorNext]_vars

\* One session creates B and calls run() on it, then calls run() again on the
\* same object; validate_ready_to_run and write_input may raise.
RerunInit == Start({Cfg("modal", "modal", NoId, NoId, TRUE, 1, MaxEvents + 1, MaxCalls + 1)})
RerunNext ==
  \/ \E p \in Users : calls = 0 /\ UserRun(p, JobB, FALSE, FALSE)
  \/ \E p \in Users, ra \in BOOLEAN, rep \in BOOLEAN : ~(ra /\ rep) /\ rerun(p, ra, rep)
  \/ \E p \in Users : Lifecycle(p) \/ update_master(p) \/ unwind(p) \/ drop_status_to_aborted(p)
RerunSpec == RerunInit /\ [][RerunNext]_vars
\* One session runs the children A and B of the master M, whose job type is the
\* base engine: _run_if_refresh raises. A child may be run again (run_again).
StuckInit == Start({Cfg("modal", "modal", NoId, 2, FALSE, 1, 0, MaxCalls + 1)})
StuckNext ==
  \/ \E p \in Users, n \in {JobA, JobB}, ra \in BOOLEAN : UserRun(p, n, ra, FALSE)
  \/ \E p \in Users :
       \/ Lifecycle(p)
       \/ update_master(p) \/ master_set_refresh(p) \/ master_load(p) \/ run_if_refresh(p)
       \/ master_elif(p) \/ master_set_busy(p)
       \/ unwind(p) \/ drop_status_to_aborted(p)
StuckSpec == StuckInit /\ [][StuckNext]_vars

\* Three processes finish children of the master M: A is launched by the first
\* session and runs in a process of its own, B runs in the second session, and
\* the first session calls run() on A again. Nothing disturbs them.
BusyInit == Start({Cfg("non_modal", "modal", NoId, 2, TRUE, 2, 0, MaxCalls + 1)})
BusyNext ==
  \/ \E p \in Users, n \in Names :
       /\ db[1].status = (IF calls = 0 THEN "created" ELSE "finished")
       /\ UserRun(p, n, FALSE, FALSE)
  \/ \E q \in Wrappers, id \in Ids : wrapper_start(q, id)
  \/ \E q \in Wrappers : wrapper_exit(q)
  \/ \E p \in Procs : Lifecycle(p) \/ MasterWake(p) \/ run_if_non_modal(p)
BusySpec == BusyInit /\ [][BusyNext]_vars

\* A and its successor B are run in two sessions that nothing disturbs; M is
\* finished; a session that has code to execute goes on executing it.
ChainInit == WaitingInit /\ cfg.users = 2 /\ cfg.events = 0 /\ db[2].status = "finished"
ChainNext == SuccessorNext \/ \E p \in Users : run_if_submitted(p)
ChainSpec ==
  /\ ChainInit
  /\ [][ChainNext]_vars
  /\ \A p \in Users : WF_vars(Lifecycle(p) \/ update_master(p) \/ predecessor_suspend(p)
                                \/ predecessor_run(p) \/ successor_load(p) \/ successor_run(p)
                                \/ run_if_submitted(p) \/ unwind(p)
                                \/ drop_status_to_aborted(p))

\* ------------------------------------------------------------ properties
PcOf(p) == IF stack[p] = <<>> THEN "idle" ELSE Top(p).pc
PcAfter(p) == IF stack'[p] = <<>> THEN "idle" ELSE stack'[p][Len(stack'[p])].pc
Moves(p) == stack'[p] # stack[p]
\* p executes a step of its code that neither raises nor handles a signal
Advances(p) == /\ stack'[p] # stack[p]
               /\ exc[p] = "none" /\ exc'[p] = "none"
               /\ sig[p] = "none" /\ sig'[p] = "none"
TopAfter(p) == stack'[p][Len(stack'[p])]
Calls1(n) == calls = 1 /\ events = 0 /\ check_if_job_exists(n) /\ rec = [u \in Users |-> NoRead]

\* C1: master wake with two children. A child whose update_master finds the
\* master in refresh writes busy; the child that serviced the master and then
\* reads busy writes suspended and enters update_master again; and once it has
\* read busy the master's refresh handler is invoked one more time.
C1_MasterWake ==
  /\ [][\A p \in Users :
          /\ (PcOf(p) = "um_elif" /\ Moves(p) /\ get_status(Top(p).master) = "refresh")
               => PcAfter(p) = "um_setbusy"
          /\ (PcOf(p) = "um_setbusy" /\ Moves(p))
               => db'[Top(p).master].status = "busy"
          /\ (PcOf(p) = "um_busy" /\ Moves(p) /\ get_status(Top(p).master) = "busy")
               => PcAfter(p) = "um_suspend"
          /\ (PcOf(p) = "um_suspend" /\ Moves(p))
               => db'[Top(p).master].status = "suspended" /\ PcAfter(p) = "um_read"]_vars
  /\ \A k \in 1..MaxCalls :
       ((\E p \in Users : PcOf(p) = "um_suspend") /\ refreshCalls = k) ~> (refreshCalls > k)

\* one child wrote busy and the other has entered the refresh handler twice
C1_Witness ==
  /\ busyWrites = 1 /\ refreshCalls = 2
  /\ \E p \in Users : PcOf(p) = "agg"

\* C2: the master's refresh handler is never executed by two processes at once
C2_NoConcurrentRefresh == Cardinality(serving) <= 1

\* C3: chain wake. B's predecessor check, made while the parent's record says
\* initialized or created, writes suspended for B and calls run() on the loaded
\* parent; the parent's successor scan sets a suspended successor to created and
\* calls run() on it; and after a single undisturbed call B.run() with the parent
\* A created, both jobs are finished, each launched once, B having passed
\* through suspended and created a second time.
C3_ChainWake ==
  /\ [][\A p \in Procs :
          /\ (PcOf(p) = "pred" /\ Advances(p) /\ Top(p).parent # NoId
                /\ get_status(Top(p).parent) \in {"initialized", "created"})
               => PcAfter(p) = "pred_suspend"
          /\ (PcOf(p) = "pred_suspend" /\ Advances(p))
               => db'[Top(p).id].status = "suspended" /\ PcAfter(p) = "pred_load"
          /\ (PcOf(p) = "pred_load" /\ Advances(p))
               => /\ Len(stack'[p]) = Len(stack[p]) + 1
                  /\ TopAfter(p).id = Top(p).parent /\ PcAfter(p) = "run"
          /\ (PcOf(p) = "succ_loop" /\ Advances(p) /\ Top(p).todo # <<>>
                /\ get_status(Head(Top(p).todo)) = "suspended")
               => PcAfter(p) = "succ_load"
          /\ (PcOf(p) = "succ_load" /\ Advances(p))
               => /\ Len(stack'[p]) = Len(stack[p]) + 1
                  /\ TopAfter(p).id = Head(Top(p).todo) /\ PcAfter(p) = "succ_created"
          /\ (PcOf(p) = "succ_created" /\ Advances(p))
               => db'[Top(p).id].status = "created" /\ PcAfter(p) = "run"]_vars
  /\ [](cfg.parent[JobB] # NoId /\ Calls1(JobB) /\ Quiescent
        => /\ db[1].status = "finished" /\ db[get_job_id(JobB)].status = "finished"
           /\ launches[JobA] = 1 /\ launches[JobB] = 1
           /\ hist[get_job_id(JobB)] = <<"initialized", "created", "suspended", "created",
                                         "submitted", "running", "collect", "finished">>)

\* the parent's successor scan has loaded the suspended B and is about to set it to created
C3_Witness ==
  \E p \in Procs : /\ PcOf(p) = "succ_created" /\ Top(p).name = JobB
                    /\ get_status(Top(p).id) = "suspended" /\ calls = 1
                    /\ Len(stack[p]) >= 2

\* C4: a job with a parent is submitted or running only when the parent's record
\* says finished
C4_StrictlySequential ==
  \A i \in Ids :
    (db[i].present /\ db[i].parentid # NoId /\ db[i].status \in {"submitted", "running"})
      => db[db[i].parentid].present /\ db[db[i].parentid].status = "finished"

TargetAfter(p) == IF det'[p] # NoObj \/ stack'[p] = <<>> THEN det'[p] ELSE ObjOf(TopAfter(p))
SignalArrives(p) == sig[p] = "none" /\ sig'[p] = "write"
HandlerActs(p) == sig[p] = "write" /\ sig'[p] = "none"
Exempt == {"finished", "suspended"}

\* C5: signal interception. The handler first takes the status of its job from
\* the job's record; if that status is finished or suspended the table is left as
\* it is, otherwise the job's record is written aborted and no other record changes.
C5_SignalIntercept ==
  [][\A p \in Procs :
       /\ (SignalArrives(p) /\ Target(p).id # NoId /\ db[Target(p).id].present)
            => TargetAfter(p).st = db[Target(p).id].status /\ db' = db
       /\ HandlerActs(p)
            => IF Target(p).st \in Exempt
                 THEN db' = db
                 ELSE \A i \in Ids :
                        IF i = Target(p).id /\ db[i].present
                          THEN db'[i] = [db[i] EXCEPT !.status = "aborted"]
                          ELSE db'[i] = db[i]]_vars

\* a signal reached a process whose job was running, and the record says aborted
C5_Witness ==
  /\ lastSig.id # NoId /\ lastSig.read = "running" /\ lastSig.wrote
  /\ db[lastSig.id].status = "aborted"

\* C6: when the handler acts, every job object constructed in the process whose
\* record is neither finished nor suspended has its record written aborted
C6_EveryInstanceAborted ==
  [][\A p \in Procs :
       HandlerActs(p)
         => \A i \in held[p] :
              (db[i].present /\ db[i].status \notin Exempt) => db'[i].status = "aborted"]_vars

\* C7: modal success. After the single undisturbed call run() on the fresh modal
\* job B (no parent; no master, or one with a refresh handler), run() has
\* returned, B's record went through initialized, created, submitted, running,
\* collect, finished, timestop is later than timestart and there is no error.msg.
C7_ModalSuccess ==
  (/\ cfg.mode[JobB] = "modal" /\ cfg.parent[JobB] = NoId
   /\ cfg.master[JobB] = NoId \/ cfg.aggregator
   /\ Calls1(JobB) /\ Quiescent)
    => LET b == get_job_id(JobB)
       IN /\ hist[b] = <<"initialized", "created", "submitted", "running", "collect", "finished">>
          /\ db[b].status = "finished"
          /\ db[b].timestop > db[b].timestart
          /\ ~errmsg[JobB]
          /\ outcome[1] = "returned"
          /\ launches[JobB] = 1

\* the call on B has returned in a scenario without master or parent
C7_Witness ==
  /\ cfg.mode[JobB] = "modal" /\ cfg.parent[JobB] = NoId /\ cfg.master[JobB] = NoId
  /\ Calls1(JobB) /\ Quiescent
  /\ db[get_job_id(JobB)].status = "finished"

\* the processes in which the single call's workload of B is executed: the
\* caller's own, unless B waits for a parent that runs in a process of its own
\* and wakes B there
C8_Executors ==
  IF cfg.parent[JobB] # NoId /\ cfg.mode[JobA] # "modal"
    THEN {q \in Wrappers : wjob[q] # NoId}
    ELSE {1}

\* C8: modal failure. Once the workload of the fresh modal job B, run by a single
\* call, has exited non-zero (error.msg is written), B's record is aborted and never
\* passes through collect or finished, and the call that executed the workload
\* ends by raising.
C8_ModalFailure ==
  (cfg.mode[JobB] = "modal" /\ calls = 1 /\ check_if_job_exists(JobB) /\ errmsg[JobB])
    => LET b == get_job_id(JobB)
       IN /\ db[b].status = "aborted"
          /\ \A k \in 1..Len(hist[b]) : hist[b][k] \notin {"collect", "finished"}
          /\ launches[JobB] = 1
          /\ \A p \in C8_Executors :
               /\ outcome[p] # "returned"
               /\ Idle(p) => outcome[p] = "raised"

\* the failed call has ended
C8_Witness ==
  /\ cfg.mode[JobB] = "modal" /\ calls = 1 /\ check_if_job_exists(JobB) /\ errmsg[JobB]
  /\ Idle(1) /\ outcome[1] = "raised" /\ db[get_job_id(JobB)].status = "aborted"

\* C9: run() without run_again and repair on a job whose status is aborted returns
\* at once: no record changes, nothing is executed, started or submitted, no job
\* object is loaded and the master's refresh handler is not invoked.
C9_AbortedIdempotent ==
  [][\A p \in Procs :
       (PcOf(p) = "run" /\ Top(p).st = "aborted" /\ ~Top(p).ra /\ ~Top(p).rep /\ Advances(p))
         => /\ db' = db /\ queue' = queue /\ spawned' = spawned /\ launches' = launches
            /\ refreshCalls' = refreshCalls /\ held' = held
            /\ Len(stack'[p]) = Len(stack[p]) - 1]_vars

\* the user has called run() a second time on a job whose record and status are aborted
C9_Witness ==
  \E p \in Users :
    /\ PcOf(p) = "run" /\ Len(stack[p]) = 1 /\ calls = 2
    /\ Top(p).st = "aborted" /\ ~Top(p).ra /\ ~Top(p).rep
    /\ Top(p).id # NoId /\ db[Top(p).id].status = "aborted"

\* C10: a record that says aborted keeps saying aborted, unless it is removed
\* (run_again) or written submitted (the first write of a run with repair)
C10_AbortedTerminal ==
  [][\A i \in Ids :
       (db[i].present /\ db[i].status = "aborted" /\ db'[i].present)
         => db'[i].status \in {"aborted", "submitted"}]_vars

ReconcileReads(p) == rec[p] = NoRead /\ rec'[p] # NoRead
ReconcileEnds(p) == rec[p] # NoRead /\ rec'[p] = NoRead

\* C11: reconciliation. reconcile reads the job's status from its record; it
\* writes aborted to that record, and to no other, when the status read is running
\* or submitted and the queue does not list the job as running (not listed,
\* listed in another state, or the query fails); otherwise it leaves the table as
\* it is; and it raises nothing in the calling session.
C11_Reconcile ==
  [][\A p \in Users :
       /\ ReconcileReads(p)
            => rec'[p].st = db[rec'[p].id].status /\ db' = db
       /\ ReconcileEnds(p)
            => LET i == rec[p].id
                   forced == /\ rec[p].st \in {"running", "submitted"}
                             /\ queue[i] # "r" \/ events' > events
               IN /\ db' = IF forced /\ db[i].present
                             THEN [db EXCEPT ![i].status = "aborted"] ELSE db
                  /\ exc'[p] = "none" /\ stack'[p] = <<>> /\ outcome' = outcome]_vars

\* nothing failed and no signal arrived, B was running when the second call, a
\* reconcile, ended, and B's record says aborted
C11_Witness ==
  /\ calls = 2 /\ events = 0 /\ rec = [u \in Users |-> NoRead]
  /\ outcome[2] = "none" /\ stack[2] = <<>>
  /\ LET b == get_job_id(JobB)
     IN /\ b # NoId /\ db[b].status = "aborted" /\ Len(hist[b]) >= 2
        /\ hist[b][Len(hist[b]) - 1] = "running"

\* C12: status monotonicity. Every write that changes the status of a record,
\* other than the aggregator's own refresh handler's, follows a transition of the
\* dispatcher (initialized, created, submitted, running, collect, finished, with
\* created <-> suspended, suspended -> refresh -> busy -> suspended) or writes
\* aborted; run_again removes the record instead of writing to it.
C12_Monotonic ==
  [][LET forward == {<<"initialized", "created">>, <<"created", "submitted">>,
                     <<"submitted", "running">>, <<"running", "collect">>,
                     <<"collect", "finished">>, <<"created", "suspended">>,
                     <<"suspended", "created">>, <<"suspended", "refresh">>,
                     <<"refresh", "busy">>, <<"busy", "suspended">>}
     IN \A i \in Ids :
          (/\ db[i].present /\ db'[i].present /\ db'[i].status # db[i].status
           /\ ~\E p \in Procs : PcOf(p) = "agg" /\ Moves(p))
            => \/ <<db[i].status, db'[i].status>> \in forward
               \/ db'[i].status = "aborted"]_vars

ExcRefreshes(p) == exc[p] = "raise" /\ exc'[p] = "drop"
ExcDrops(p) == exc[p] = "drop" /\ exc'[p] = "raise"
ExcLeaves(p) == exc[p] = "raise" /\ Len(stack'[p]) < Len(stack[p])

\* C13: an error raised inside run(). In every enclosing run() of the job the
\* except clause first takes the job's status from its record; if that status is
\* finished or suspended nothing is written, otherwise the job's status becomes
\* aborted in memory and in its record, and no other record changes; then the
\* error is raised again: it leaves a frame only as an error, and a user's call
\* that an error leaves ends raised with the job aborted, finished or suspended.
C13_ErrorAborts ==
  [][\A p \in Procs :
       /\ ExcRefreshes(p)
            => /\ db' = db
               /\ (Top(p).id # NoId /\ db[Top(p).id].present)
                    => TopAfter(p).st = db[Top(p).id].status
       /\ ExcDrops(p)
            => IF Top(p).st \in Exempt
                 THEN db' = db /\ TopAfter(p).st = Top(p).st
                 ELSE /\ TopAfter(p).st = "aborted"
                      /\ \A i \in Ids :
                           IF i = Top(p).id /\ db[i].present
                             THEN db'[i] = [db[i] EXCEPT !.status = "aborted"]
                             ELSE db'[i] = db[i]
       /\ ExcLeaves(p)
            => /\ Top(p).tries = 0
               /\ IF Len(stack[p]) > 1 THEN exc'[p] = "raise" ELSE outcome'[p] = "raised"
               /\ (p \in Users /\ Len(stack[p]) = 1)
                    => Top(p).st \in Exempt \cup {"aborted"}]_vars

\* the collect handler of a job failed and its run() has written aborted over
\* collect and is raising the error again
C13_Witness ==
  \E p \in Procs :
    /\ exc[p] = "raise" /\ stack[p] # <<>> /\ Top(p).st = "aborted" /\ Top(p).id # NoId
    /\ LET h == hist[Top(p).id]
       IN Len(h) >= 2 /\ h[Len(h)] = "aborted" /\ h[Len(h) - 1] = "collect"

\* the step stays in the frame of the job object p is working on
SameFrame(p) == stack[p] # <<>> /\ Len(stack'[p]) = Len(stack[p])

\* C14: the id of a job object. A job object of a job the table does not know
\* has no id; the id changes only in save(), from none to an id the table never
\* handed out, whose new record carries the object's master_id and parent_id, and
\* in run(run_again=True) on an object with an id, which removes the record,
\* clears the id and dispatches the initialized handler; master_id and parent_id
\* of the object never change.
C14_IdLifecycle ==
  [][\A p \in Procs :
       /\ (stack[p] = <<>> /\ stack'[p] # <<>>)
            => TopAfter(p).id = get_job_id(TopAfter(p).name)
       /\ SameFrame(p)
            => LET f == Top(p)
                   g == TopAfter(p)
               IN /\ g.master = f.master /\ g.parent = f.parent /\ g.name = f.name
                  /\ g.id # f.id
                       => \/ /\ f.id = NoId /\ f.pc = "save"
                             /\ hist[g.id] = <<>> /\ ~db[g.id].present
                             /\ db'[g.id].present /\ db'[g.id].name = f.name
                             /\ db'[g.id].masterid = f.master
                             /\ db'[g.id].parentid = f.parent
                          \/ /\ f.id # NoId /\ g.id = NoId /\ f.pc = "run" /\ f.ra
                             /\ ~db'[f.id].present
                             /\ g.pc = "new" /\ g.st = "initialized"]_vars

\* B, which has a parent, is in the table under a second id after run_again
\* removed its first record
C14_Witness ==
  \E i, j \in Ids :
    /\ i < j /\ hist[i] # <<>> /\ ~db[i].present /\ hist[i][1] = "initialized"
    /\ db[j].present /\ db[j].name = JobB /\ db[j].parentid = 1

\* C15: repair. run(repair=True) on a job object that has an id and whose status
\* is not finished enters the created handler, whatever the status is; on a
\* finished job it enters the finished handler and on a job without an id the
\* initialized handler (none if a signal has made its status aborted), as without
\* repair; and the created handler writes submitted and goes on with the strategy
\* of the run mode.
C15_Repair ==
  [][\A p \in Procs :
       /\ (PcOf(p) = "run" /\ Advances(p) /\ Top(p).rep /\ ~Top(p).ra)
            => IF Top(p).id # NoId /\ Top(p).st # "finished"
                 THEN PcAfter(p) = "created"
                 ELSE IF Top(p).st = "finished" THEN PcAfter(p) = "finished"
                 ELSE IF Top(p).st = "initialized" THEN PcAfter(p) = "new"
                 ELSE Top(p).st = "aborted" /\ Len(stack'[p]) = Len(stack[p]) - 1
       /\ (PcOf(p) = "created" /\ Advances(p))
            => /\ db[Top(p).id].present => db'[Top(p).id].status = "submitted"
               /\ LET m == cfg.mode[Top(p).name]
                  IN IF m = "manual" THEN Len(stack'[p]) = Len(stack[p]) - 1
                     ELSE /\ SameFrame(p)
                          /\ PcAfter(p) = (IF m = "queue" THEN "scheduler" ELSE m)]_vars

\* run(repair=True) has entered the created handler for a job whose record and
\* in-memory status say running
C15_Witness ==
  \E p \in Users :
    /\ PcOf(p) = "created" /\ Top(p).st = "running"
    /\ db[Top(p).id].status = "running"

\* C16: run() without run_again and repair on a job object whose status is
\* suspended enters the suspended handler, which marks the job refresh
C16_SuspendedRefresh ==
  [][\A p \in Procs :
       (PcOf(p) = "run" /\ Top(p).st = "suspended" /\ ~Top(p).ra /\ ~Top(p).rep
          /\ Advances(p))
         => \/ SameFrame(p) /\ PcAfter(p) \in {"suspended", "refresh"}
            \/ db'[Top(p).id].status = "refresh"]_vars

\* the job of the frame has the handlers of the base class
BaseEngine(f) == ~(cfg.aggregator /\ f.name = JobM)

\* C17: refresh and busy in the base class. run() without run_again and repair
\* on a job object whose status is refresh or busy enters the handler of that
\* status; for a job with the handlers of the base class the handler raises and
\* changes nothing: no record, no workload executed, started or submitted; and
\* when the error leaves a user's call, the call ends raised.
C17_Unsupported ==
  [][\A p \in Procs :
       /\ (PcOf(p) = "run" /\ Top(p).st \in {"refresh", "busy"} /\ ~Top(p).ra
              /\ ~Top(p).rep /\ Advances(p))
            => SameFrame(p) /\ PcAfter(p) = Top(p).st
       /\ (PcOf(p) \in {"refresh", "busy"} /\ BaseEngine(Top(p)) /\ Moves(p)
              /\ exc[p] = "none" /\ sig[p] = "none" /\ sig'[p] = "none")
            => /\ exc'[p] = "raise" /\ SameFrame(p) /\ PcAfter(p) = PcOf(p)
               /\ db' = db /\ launches' = launches /\ spawned' = spawned
               /\ queue' = queue
       /\ (PcOf(p) \in {"refresh", "busy"} /\ ExcLeaves(p) /\ Len(stack[p]) = 1)
            => outcome'[p] = "raised"]_vars

\* the single call, run() on the job A whose record said busy, has ended raised
\* and A's workload was not executed
C17_Witness ==
  /\ cfg.start = "busy" /\ calls = 1 /\ Idle(1) /\ outcome[1] = "raised"
  /\ launches[JobA] = 0 /\ spawned = {}

\* p leaves update_master: _calculate_successor is next, or the handler returns
LeavesMaster(p) == \/ Len(stack'[p]) = Len(stack[p]) - 1
                   \/ SameFrame(p) /\ PcAfter(p) = "succ"

\* C18: update_master without effect. Without a master_id update_master is left
\* at once; with a master whose status is not suspended at the first read it goes
\* to the second read, and with a status other than refresh there it is left; in
\* each of these steps no record changes, no job object is loaded and the
\* master's refresh handler is not invoked.
C18_MasterUntouched ==
  [][\A p \in Procs :
       /\ (PcOf(p) = "um_read" /\ Advances(p) /\ Top(p).master = NoId)
            => LeavesMaster(p)
       /\ (PcOf(p) = "um_read" /\ Advances(p) /\ Top(p).master # NoId
              /\ get_status(Top(p).master) # "suspended")
            => SameFrame(p) /\ PcAfter(p) = "um_elif"
       /\ (PcOf(p) = "um_elif" /\ Advances(p) /\ get_status(Top(p).master) # "refresh")
            => LeavesMaster(p)
       /\ (PcOf(p) \in {"um_read", "um_elif"} /\ Advances(p))
            => db' = db /\ held' = held /\ refreshCalls' = refreshCalls
               /\ Len(stack'[p]) <= Len(stack[p])]_vars

\* the second child B has left update_master, having found the master finished
\* by the refresh handler the first child invoked
C18_Witness ==
  \E p \in Procs :
    /\ PcOf(p) = "succ" /\ Top(p).name = JobB /\ Top(p).master = 2
    /\ hist[2] = <<"suspended", "refresh", "finished">> /\ refreshCalls = 1

\* the step is taken by process p
ActsIn(p) == stack'[p] # stack[p] \/ exc'[p] # exc[p] \/ sig'[p] # sig[p]

\* C19: failures stay with the job. While a process executes a call made on a
\* child of a master, none of its steps writes aborted to the record of the
\* master or of a sibling; and each of its steps that changes the master's status
\* is a write of update_master made for a child whose status is finished.
C19_FailureIsolation ==
  [][\A p \in Procs :
       (stack[p] # <<>> /\ stack[p][1].master # NoId /\ ActsIn(p))
         => LET c == stack[p][1]
            IN \A i \in Ids :
                 (db[i].present /\ db'[i].present /\ db'[i].status # db[i].status
                    /\ (i = c.master \/ (db[i].masterid = c.master /\ i # c.id)))
                   => /\ db'[i].status # "aborted"
                      /\ i = c.master
                      /\ PcOf(p) \in {"um_refresh", "um_suspend", "um_setbusy", "agg"}
                      /\ PcOf(p) # "agg" => Top(p).st = "finished"]_vars

\* C20: a job whose record says aborted has an error.msg file in its working
\* directory
C20_FailureDiagnosed ==
  \A i \in Ids : (db[i].present /\ db[i].status = "aborted") => errmsg[db[i].name]

\* the mode the Runmode object was given last: modal before any assignment
LastAssigned == IF assigned = <<>> THEN "modal" ELSE assigned[Len(assigned)].mode

\* C21: run modes are mutually exclusive. A new Runmode is modal, and after any
\* sequence of assignments, by mode string or by setting a flag to True, exactly
\* one of the flags modal, non_modal, queue and manual is true: the one assigned
\* last; so the chain of _run_if_created picks the strategy of that mode.
C21_ModesExclusive ==
  /\ \A m \in RunModes : run_mode[m] <=> (m = LastAssigned)
  /\ Cardinality({m \in RunModes : run_mode[m]}) = 1
  /\ created_strategy(run_mode) = strategy(LastAssigned)

\* queue was selected through its flag after manual had been selected by mode string
C21_Witness ==
  /\ Len(assigned) >= 2
  /\ assigned[Len(assigned) - 1] = [by |-> "mode", mode |-> "manual"]
  /\ assigned[Len(assigned)] = [by |-> "flag", mode |-> "queue"]
  /\ run_mode["queue"]

\* C22: run() waits for the workload only in modal mode. In the first, undisturbed
\* call of run() on the fresh job B in non_modal, queue or manual mode the calling
\* process never writes running, collect or finished to B's record, and the call
\* returns with the record at submitted: after the launch of run_job.py in
\* non_modal mode, after the submission in queue mode, and with nothing launched
\* and nothing submitted in manual mode, where B's workload is never executed.
C22_OnlyModalWaits ==
  /\ [][\A p \in Users :
          (/\ Moves(p) /\ stack[p] # <<>> /\ stack[p][1].name = JobB
           /\ cfg.mode[JobB] # "modal" /\ calls = 1 /\ events' = 0)
            => /\ \A i \in Ids :
                    (db'[i].present /\ db'[i].name = JobB /\ db'[i] # db[i])
                      => db'[i].status \notin {"running", "collect", "finished"}
               /\ stack'[p] = <<>>
                    => /\ outcome'[p] = "returned"
                       /\ \E i \in Ids :
                            /\ db'[i].present /\ db'[i].name = JobB
                            /\ db'[i].status = "submitted"
                            /\ cfg.mode[JobB] = "non_modal" => i \in spawned' \ spawned
                            /\ cfg.mode[JobB] = "queue"
                                 => queue[i] = "none" /\ queue'[i] = "waiting"
                            /\ cfg.mode[JobB] = "manual"
                                 => spawned' = {} /\ queue'[i] = "none"]_vars
  /\ [](cfg.mode[JobB] = "manual"
          => /\ launches[JobB] = 0 /\ spawned = {}
             /\ \A i \in Ids : queue[i] = "none"
             /\ \A q \in Wrappers : wjob[q] = NoId)

\* the first call, on the fresh non_modal job B, has returned: B is submitted and
\* its run_job.py was started
C22_Witness ==
  /\ cfg.mode[JobB] = "non_modal" /\ calls = 1 /\ events = 0
  /\ outcome[1] = "returned" /\ stack[1] = <<>>
  /\ db[3].present /\ db[3].name = JobB /\ db[3].status = "submitted"
  /\ 3 \in spawned

Restarts == new_ham = NoHam /\ new_ham' # NoHam

\* C24: restart() is possible only after the current job has finished. Called
\* on a job whose status is not finished it creates no restart job and neither
\* saves nor changes the current job.
C24_RestartOnlyFinished ==
  [][Restarts => status_of(job) = "finished"]_vars

\* C25: the job restart() returns has the id of the job it was created from as
\* parent_id, no id of its own and an empty restart_file_list whatever the source's
\* list holds, and the call leaves the source job's restart_file_list, id and
\* status as they were.
C25_RestartFrame ==
  [][Restarts
       => /\ new_ham'.parent = job'.id /\ new_ham'.parent # NoId
          /\ new_ham'.id = NoId
          /\ new_ham'.rfl = <<>>
          /\ job'.rfl = job.rfl /\ job'.id = job.id
          /\ status_of(job)' = status_of(job)]_vars

\* p takes a step of an exception on its way out
Unwinds(p) == exc[p] # "none" /\ (stack'[p] # stack[p] \/ exc'[p] # exc[p])

\* C26: validate_ready_to_run() is evaluated at the start of every run() call,
\* before any status write. When it fails, that step changes neither the job
\* table nor the queue and dispatches no handler; until the exception has left the
\* process no strategy is invoked, nothing is launched or submitted and the only
\* status written is aborted; and the top-level call ends by raising.
C26_ValidateFirst ==
  [][\A p \in Procs :
       /\ (PcOf(p) = "run" /\ Moves(p) /\ exc[p] = "none" /\ exc'[p] = "raise")
            => /\ db' = db /\ hist' = hist /\ queue' = queue /\ spawned' = spawned
               /\ launches' = launches
               /\ PcAfter(p) = "run" /\ Len(stack'[p]) = Len(stack[p])
       /\ Unwinds(p)
            => /\ queue' = queue /\ spawned' = spawned /\ launches' = launches
               /\ \A i \in Ids : db'[i] # db[i]
                    => db'[i] = [db[i] EXCEPT !.status = "aborted"]
               /\ stack'[p] = <<>> \/ TopAfter(p).pc = Top(p).pc
                    \/ Len(stack'[p]) < Len(stack[p])
               /\ stack'[p] = <<>> => outcome'[p] = "raised"]_vars

\* run() on the created job A failed in validate_ready_to_run: the call raised and
\* A went from created to aborted without having been submitted or launched
C26_Witness ==
  /\ calls = 1 /\ events = 1 /\ outcome[1] = "raised" /\ stack[1] = <<>>
  /\ hist[1] = <<"initialized", "created", "aborted">>
  /\ launches[JobA] = 0 /\ spawned = {} /\ lastSig.id = NoId

\* C27: the created handler writes submitted before any strategy starts, and then
\* enters exactly one strategy, the one of the job's run mode: run_if_modal, which
\* writes running and then collect or aborted; or run_if_non_modal,
\* run_if_scheduler or run_if_manually, which leave the record at submitted.
C27_CreatedHandler ==
  [][\A p \in Procs :
       /\ (PcOf(p) = "created" /\ Advances(p))
            => /\ (Top(p).id \in Ids /\ db[Top(p).id].present)
                    => db'[Top(p).id].status = "submitted"
               /\ launches' = launches /\ spawned' = spawned /\ queue' = queue
               /\ CASE cfg.mode[Top(p).name] = "modal" -> PcAfter(p) = "modal"
                    [] cfg.mode[Top(p).name] = "non_modal" -> PcAfter(p) = "non_modal"
                    [] cfg.mode[Top(p).name] = "queue" -> PcAfter(p) = "scheduler"
                    [] cfg.mode[Top(p).name] = "manual"
                         -> Len(stack'[p]) = Len(stack[p]) - 1
               /\ Len(stack'[p]) <= Len(stack[p])
       /\ (PcOf(p) = "modal" /\ Advances(p))
            => /\ (Top(p).id \in Ids /\ db[Top(p).id].present)
                    => db'[Top(p).id].status = "running"
               /\ PcAfter(p) = "timestart"
       /\ (PcOf(p) = "exec" /\ Moves(p) /\ exc[p] = "none" /\ sig[p] = "none"
             /\ sig'[p] = "none" /\ Top(p).id \in Ids /\ db[Top(p).id].present)
            => db'[Top(p).id].status \in {"collect", "aborted"}
       /\ (PcOf(p) \in {"non_modal", "scheduler"} /\ Moves(p) /\ exc[p] = "none"
             /\ sig[p] = "none" /\ sig'[p] = "none")
            => db' = db /\ launches' = launches]_vars

\* the created handler of the queue job B has written submitted and entered
\* run_if_scheduler, nothing being queued yet
C27_Witness ==
  \E p \in Users :
    /\ PcOf(p) = "scheduler" /\ Top(p).name = JobB /\ cfg.mode[JobB] = "queue"
    /\ Top(p).id \in Ids /\ get_status(Top(p).id) = "submitted"
    /\ queue[Top(p).id] = "none"

\* C28: run() on a job whose status is submitted or running. The dispatch and the
\* handler write nothing; unless the job is in queue mode and the queue does not
\* list it the handler returns, else it calls run(run_again=True), which removes
\* the record and enters the initialized handler with a job object that has no
\* id and the same master_id and parent_id; when the call has returned, a job B
\* whose first record was removed while submitted is in the table under a new
\* id and was submitted to the queue again.
C28_LostQueueJob ==
  /\ [][\A p \in Procs :
          /\ (PcOf(p) = "run" /\ Advances(p) /\ PcAfter(p) \in {"submitted", "running"})
               => db' = db /\ queue' = queue /\ spawned' = spawned
          /\ (PcOf(p) \in {"submitted", "running"} /\ Advances(p))
               => /\ db' = db /\ queue' = queue /\ spawned' = spawned /\ launches' = launches
                  /\ IF cfg.mode[Top(p).name] = "queue"
                          /\ (Top(p).id \notin Ids \/ queue[Top(p).id] = "none")
                       THEN /\ Len(stack'[p]) = Len(stack[p])
                            /\ TopAfter(p) = [Top(p) EXCEPT !.pc = "run", !.ra = TRUE]
                       ELSE Len(stack'[p]) = Len(stack[p]) - 1
          /\ (PcOf(p) = "run" /\ Advances(p) /\ Top(p).ra /\ Top(p).id # NoId)
               => /\ ~db'[Top(p).id].present
                  /\ Len(stack'[p]) = Len(stack[p])
                  /\ TopAfter(p).pc = "new" /\ TopAfter(p).id = NoId
                  /\ TopAfter(p).st = "initialized"
                  /\ TopAfter(p).master = Top(p).master
                  /\ TopAfter(p).parent = Top(p).parent]_vars
  /\ []((/\ cfg.mode[JobB] = "queue" /\ events = 1 /\ lastSig.id = NoId
          /\ outcome[1] = "returned" /\ stack[1] = <<>>
          /\ db[1].present /\ ~db[3].present
          /\ hist[3] = <<"initialized", "created", "submitted">>)
           => /\ db[4].present /\ db[4].name = JobB
              /\ Len(hist[4]) >= 3
              /\ SubSeq(hist[4], 1, 3) = <<"initialized", "created", "submitted">>
              /\ db[4].masterid = cfg.master[JobB] /\ db[4].parentid = cfg.parent[JobB]
              /\ db[4].status = "submitted" => queue[4] \in {"waiting", "r"})

\* the submitted handler of the queue job B, which the queue dropped, has called
\* run(run_again=True)
C28_Witness ==
  \E p \in Users :
    /\ PcOf(p) = "run" /\ Top(p).ra /\ Top(p).tries > 0
    /\ Top(p).name = JobB /\ Top(p).id = 3 /\ Top(p).st = "submitted"
    /\ cfg.mode[JobB] = "queue" /\ queue[3] = "none" /\ db[3].present

\* C29: queue submission. Once the call that submitted a job has ended, a job
\* whose submission failed is aborted and the call has raised, so that a job is
\* submitted only if the scheduler accepted it; and a queue_id is kept only from a
\* submission the scheduler accepted.
C29_SubmissionFailure ==
  \A i \in Ids :
    /\ (qsub[i].exit = "failed" /\ db[i].present /\ calls = 1 /\ stack[1] = <<>>
        /\ exc[1] = "none")
         => db[i].status = "aborted" /\ outcome[1] = "raised"
    /\ qsub[i].queue_id # "none" => qsub[i].exit = "ok"

\* C30: the successor scan. The scan of a job takes the ids of the records whose
\* parentid is the job's id, lowest id first. A successor whose record says
\* suspended when the scan reads it is loaded, set to created and run, in this
\* order, before the scan reads the next one; a successor whose record says
\* anything else is left as it is and is not run. After the single call B.run()
\* with M and B both waiting for A, M (the lower id) has run before B.
C30_SuccessorScan ==
  /\ [][\A p \in Users :
          /\ (PcOf(p) = "succ" /\ Advances(p))
               => LET t == TopAfter(p).todo
                      S == {c \in Ids : db[c].present /\ db[c].parentid = Top(p).id}
                  IN /\ Len(t) = Cardinality(S)
                     /\ \A i \in 1..Len(t) : t[i] \in S
                     /\ \A i, j \in 1..Len(t) : i < j => t[i] < t[j]
                     /\ PcAfter(p) = "succ_loop" /\ db' = db
          /\ (PcOf(p) = "succ_loop" /\ Advances(p) /\ Top(p).todo # <<>>)
               => IF db[Head(Top(p).todo)].status = "suspended"
                    THEN /\ PcAfter(p) = "succ_load" /\ TopAfter(p).todo = Top(p).todo
                         /\ db' = db
                    ELSE /\ TopAfter(p).todo = Tail(Top(p).todo) /\ PcAfter(p) = "succ_loop"
                         /\ Len(stack'[p]) = Len(stack[p])
                         /\ db' = db /\ hist' = hist /\ launches' = launches
          /\ (PcOf(p) = "succ_load" /\ Advances(p))
               => /\ Len(stack'[p]) = Len(stack[p]) + 1
                  /\ TopAfter(p).id = Head(Top(p).todo) /\ PcAfter(p) = "succ_created"
                  /\ stack'[p][Len(stack[p])].pc = "succ_loop"
                  /\ stack'[p][Len(stack[p])].todo = Tail(Top(p).todo)
                  /\ db' = db
          /\ (PcOf(p) = "succ_created" /\ Advances(p))
               => /\ db'[Top(p).id].status = "created" /\ TopAfter(p).st = "created"
                  /\ PcAfter(p) = "run" /\ Len(stack'[p]) = Len(stack[p])]_vars
  /\ [](Calls1(JobB) /\ Quiescent /\ db[2].parentid = 1 /\ outcome[1] = "returned"
        => /\ db[1].status = "finished" /\ db[3].status = "finished"
           /\ launches[JobA] = 1 /\ launches[JobB] = 1
           /\ IF hist[2][1] = "suspended"
                THEN /\ hist[2] = <<"suspended", "created", "submitted", "running", "collect",
                                    "finished">>
                     /\ launches[JobM] = 1
                     /\ db[1].timestop < db[2].timestop /\ db[2].timestop < db[3].timestop
                ELSE /\ Len(hist[2]) = 1 /\ launches[JobM] = 0
                     /\ db[2].timestop = 0 /\ db[1].timestop < db[3].timestop)

\* A's scan found M and B waiting, M has run and finished, and the loaded B is
\* about to be set to created
C30_Witness ==
  \E p \in Users : /\ PcOf(p) = "succ_created" /\ Top(p).name = JobB
                    /\ db[Top(p).id].status = "suspended" /\ db[Top(p).id].parentid = 1
                    /\ db[2].parentid = 1 /\ db[2].status = "finished"
                    /\ hist[2][1] = "suspended"

\* C31: the order of the collect handler. The step that marks the job finished
\* writes finished to its record and is followed by update_master; update_master
\* of a collect handler is entered only from that step (or from its own
\* recursion); the successor scan is entered only from a step of update_master
\* on the same frame, that is, after every frame update_master pushed has
\* returned; a collection hook that fails writes nothing; and a frame an
\* exception leaves never resumes, so neither a failed hook nor a master wake
\* that raises is followed by a later part of the handler. After a single call
\* A.run() whose collection hook failed, A never was finished and the master's
\* record was never written.
C31_CollectOrder ==
  /\ [][\A p \in Procs :
          /\ (PcOf(p) = "set_finished" /\ Advances(p))
               => /\ Top(p).id \in Ids => db'[Top(p).id].status = "finished"
                  /\ PcAfter(p) = "um_read" /\ TopAfter(p).cont = "succ"
                  /\ Len(stack'[p]) = Len(stack[p])
          /\ (Moves(p) /\ Len(stack'[p]) = Len(stack[p]) /\ PcAfter(p) = "um_read"
                /\ TopAfter(p).cont = "succ" /\ PcOf(p) # "um_read")
               => PcOf(p) \in {"set_finished", "um_suspend"}
          /\ (Moves(p) /\ PcAfter(p) = "succ" /\ PcOf(p) # "succ")
               => /\ PcOf(p) \in {"um_read", "um_busy", "um_elif", "um_setbusy"}
                  /\ Len(stack'[p]) = Len(stack[p])
                  /\ Top(p).cont = "succ" /\ exc[p] = "none"
          /\ (PcOf(p) = "collect" /\ Moves(p) /\ exc[p] = "none" /\ exc'[p] = "raise")
               => db' = db /\ hist' = hist
          /\ (Moves(p) /\ exc[p] # "none" /\ stack[p] # <<>>)
               => /\ Len(stack'[p]) <= Len(stack[p])
                  /\ Len(stack'[p]) = Len(stack[p]) => PcAfter(p) = PcOf(p)]_vars
  /\ [](calls = 1 /\ Quiescent /\ lastSig.id = NoId /\ cfg.start = "created"
          /\ rec = [u \in Users |-> NoRead]
          /\ hist[1] = <<"initialized", "created", "submitted", "running", "collect", "aborted">>
        => /\ cfg.mode[JobA] = "modal" => outcome[1] = "raised"
           /\ db[1].status = "aborted"
           /\ hist[2] = <<"suspended">> /\ refreshCalls = 0 /\ busyWrites = 0
           /\ launches[JobB] = 0)

\* A's master has been serviced and its frame has returned: A, finished, is about
\* to scan for its successors
C31_Witness ==
  \E p \in Procs : /\ PcOf(p) = "succ" /\ Top(p).master # NoId /\ Top(p).name = JobA
                   /\ refreshCalls = 1 /\ serving = {}
                   /\ db[Top(p).id].status = "finished"

\* C32: suspend() stores the object before it writes suspended. While a record
\* says suspended because of a call of suspend(), the job's HDF5 file holds what
\* that call (or a later one) stored, and a process that read suspended and then
\* loaded the job got it; when the status is written the file holds exactly the
\* state the object has; and the object's attributes are deleted only after the
\* state was stored and the status written.
C32_SuspendOrder ==
  /\ [](/\ \A id \in Ids : (db[id].present /\ db[id].status = "suspended"
                              /\ sus.marked[id] > 0)
                             => h5[db[id].name].by >= sus.marked[id]
        /\ (child.pc = "loaded" /\ child.k > 0) => child.obj.by >= child.k)
  /\ [][/\ (sus.pc = "to_hdf" /\ sus'.pc # "to_hdf")
             => /\ h5[job.name] = [rfl |-> job.rfl, by |-> sus.n] /\ h5' = h5
                /\ job.id \in Ids => db'[job.id].status = "suspended"
        /\ (job # NoHam /\ job' = NoHam)
             => /\ h5[job.name] = [rfl |-> job.rfl, by |-> sus.n] /\ h5' = h5
                /\ job.st = "suspended"
                /\ job.id \in Ids => sus.marked[job.id] = sus.n]_vars

\* the other process has loaded the job a suspend() in progress stored, its
\* restart_file_list included, before that suspend() deleted the object
C32_Witness ==
  /\ child.pc = "loaded" /\ child.k > 0 /\ child.k = sus.n /\ sus.pc = "status"
  /\ child.obj.rfl # <<>> /\ child.obj.rfl = job.rfl /\ child.id = job.id

\* C33: no lost wake. Two children of one master were run once each by two
\* sessions, one of them wrote busy to the master's record, and the master's
\* refresh handler ends by writing suspended: when every call has returned, the
\* handler has been invoked again after the busy write and the record does not
\* say busy.
C33_BusyServiced ==
  (/\ Quiescent /\ launches[JobA] = 1 /\ launches[JobB] = 1 /\ busyWrites >= 1
   /\ \E k \in 3..Len(hist[2]) : hist[2][k] = "suspended")
    => refreshCalls >= 2 /\ db[2].status # "busy"

\* C34: no successor is left behind. A successor that wrote suspended for itself
\* because its parent had still to run is not suspended when the parent is
\* finished and every call has returned.
C34_SuspendedWoken ==
  \A i \in Ids :
    (Quiescent /\ db[1].status = "finished" /\ db[i].present /\ db[i].name = JobB)
      => db[i].status # "suspended"

\* C35: redundant busy writes. Two children found the master in refresh while a
\* third process was servicing it, both wrote busy, and the master's refresh
\* handler ended by writing suspended: when every call has returned, the handler
\* has been invoked exactly once more and the record does not say busy.
C35_RedundantBusy ==
  (/\ Quiescent /\ \A q \in Wrappers : wjob[q] = NoId
   /\ busyWrites = 2 /\ launches[JobA] = 1 /\ launches[JobB] = 1
   /\ LET h == hist[2]
      IN h[Len(h)] = "suspended" \/ (h[Len(h)] = "busy" /\ h[Len(h) - 1] = "suspended"))
    => refreshCalls = 2 /\ db[2].status # "busy"

\* C36: finished is kept. No step of any process replaces the status finished
\* of a record by aborted.
C36_FinishedKept ==
  [][\A i \in Ids : (db[i].present /\ db[i].status = "finished" /\ db'[i].present)
                      => db'[i].status # "aborted"]_vars

\* C37: a failure before the record exists. A run() that raises on a job object
\* without an id leaves the object aborted and without an id; run() on an
\* aborted object without an id selects no handler, whatever run_again and repair
\* are, writes nothing to the table, launches nothing, and leaves the object as
\* it was.
C37_FailedBeforeSave ==
  /\ [](\A p \in Users :
          /\ (stack[p] = <<>> /\ outcome[p] = "raised" /\ det[p] # NoObj /\ det[p].id = NoId)
               => det[p].st = "aborted"
          /\ (stack[p] # <<>> /\ exc[p] = "none" /\ Top(p).id = NoId /\ Top(p).st = "aborted")
               => Top(p).pc = "run")
  /\ [][\A p \in Users :
          (stack[p] # <<>> /\ Top(p).id = NoId /\ Top(p).st = "aborted" /\ stack'[p] # stack[p])
            => /\ db' = db /\ launches' = launches /\ nextId' = nextId
               /\ \/ stack'[p] = <<>> /\ det'[p] = ObjOf(Top(p))
                  \/ /\ stack'[p] # <<>> /\ Top(p)'.id = NoId /\ Top(p)'.st = "aborted"
                     /\ Top(p)'.pc = Top(p).pc /\ exc'[p] # "none"]_vars
C37_Witness ==
  /\ calls = MaxCalls + 1 /\ stack[1] = <<>> /\ outcome[1] = "returned"
  /\ det[1] = [name |-> JobB, id |-> NoId, st |-> "aborted"]
  /\ ~check_if_job_exists(JobB)

\* C38 as stated: once the master was set to refresh and its handler raised,
\* the child keeps finished, the master is not aborted, and every later
\* completion of a child (update_master called by _run_if_collect) reads refresh
\* and goes on to write busy.
C38_FindsRefresh ==
  /\ [](\A i \in Ids : (db[i].present /\ db[i].name # JobM
                          /\ \E k \in 1..Len(hist[i]) : hist[i][k] = "finished")
                         => db[i].status = "finished")
  /\ [](db[2].status # "aborted")
  /\ [][\A p \in Users :
          (/\ stack[p] # <<>> /\ exc[p] = "none" /\ Top(p).pc = "um_read" /\ Top(p).cont = "succ"
           /\ \E k \in 1..Len(hist[2]) : hist[2][k] = "refresh"
           /\ stack'[p] # stack[p])
            => db[2].status = "refresh" /\ Top(p)'.pc = "um_elif"]_vars

\* C38: the stuck master. Once the master was set to refresh and its handler
\* raised, the child that triggered it keeps finished, the master is refresh or
\* busy and never aborted, its handler is never entered again, the only write to
\* the master is one busy, written by the next completion, which read refresh;
\* a completion after that reads busy and writes nothing.
C38_StuckMaster ==
  /\ [](\A i \in Ids : (db[i].present /\ db[i].name # JobM
                          /\ \E k \in 1..Len(hist[i]) : hist[i][k] = "finished")
                         => db[i].status = "finished")
  /\ []((\E k \in 1..Len(hist[2]) : hist[2][k] = "refresh")
          => /\ db[2].status \in {"refresh", "busy"}
             /\ hist[2] \in {<<"suspended", "refresh">>, <<"suspended", "refresh", "busy">>}
             /\ busyWrites = (IF db[2].status = "busy" THEN 1 ELSE 0)
             /\ refreshCalls = 0)
  /\ [][\A p \in Users :
          (/\ stack[p] # <<>> /\ exc[p] = "none" /\ Top(p).pc = "um_read" /\ Top(p).cont = "succ"
           /\ \E k \in 1..Len(hist[2]) : hist[2][k] = "refresh"
           /\ stack'[p] # stack[p])
            => IF db[2].status = "refresh" THEN Top(p)'.pc = "um_elif"
               ELSE db[2].status = "busy" /\ Top(p)'.pc = "um_elif"]_vars
  /\ [][\A p \in Users :
          (stack[p] # <<>> /\ exc[p] = "none" /\ Top(p).pc = "um_elif" /\ stack'[p] # stack[p])
            => IF db[2].status = "refresh" THEN Top(p)'.pc = "um_setbusy"
               ELSE /\ db[2].status = "busy" /\ db' = db
                    /\ stack'[p] = <<>> \/ Top(p)'.pc = "succ"]_vars
C38_Witness ==
  /\ Quiescent /\ calls = MaxCalls + 1 /\ db[2].status = "busy" /\ busyWrites = 1
  /\ db[3].status = "finished" /\ db[4].present /\ db[4].name = JobA /\ db[4].status = "finished"
  /\ outcome[1] = "returned"

\* C39: one launch in a modal chain. While the object B.run() was called on
\* waits, suspended, for the run of its parent, B's workload is launched only by
\* the B object that the parent's successor scan loaded, and only if it was not
\* launched before; the object that waited is never inside a handler (stated
\* for the first call, where the object B.run() is called on is new), and the
\* run() that _run_if_new ends with finds it suspended, selects no handler,
\* writes nothing and launches nothing. After a single undisturbed B.run() with
\* A created and modal, B was launched once.
C39_OneLaunch ==
  /\ [](\A p \in Users :
          (calls = 1 /\ stack[p] # <<>> /\ stack[p][1].name = JobB
             /\ stack[p][1].st = "suspended" /\ exc[p] = "none")
            => stack[p][1].pc \in {"pred_load", "run"})
  /\ [][\A p \in Users :
          /\ (/\ stack[p] # <<>> /\ stack[p][1].name = JobB /\ stack[p][1].st = "suspended"
              /\ launches'[JobB] # launches[JobB] /\ stack'[p] # stack[p])
               => /\ Len(stack[p]) = 3 /\ launches[JobB] = 0
                  /\ stack[p][2].name = JobA /\ stack[p][2].pc = "succ_loop"
                  /\ Top(p).name = JobB /\ Top(p).id = stack[p][1].id
          /\ (/\ Len(stack[p]) = 1 /\ Top(p).name = JobB /\ Top(p).st = "suspended"
              /\ Top(p).pc = "run" /\ Top(p).tries > 0 /\ exc[p] = "none"
              /\ stack'[p] # stack[p])
               => /\ db' = db /\ launches' = launches /\ spawned' = spawned /\ queue' = queue
                  /\ stack'[p] = <<>> \/ exc'[p] = "raise"]_vars
  /\ []((/\ calls = 1 /\ events = 0 /\ Quiescent /\ check_if_job_exists(JobB)
         /\ cfg.parent[JobB] # NoId /\ cfg.mode[JobA] = "modal" /\ cfg.start = "created"
         /\ rec = [u \in Users |-> NoRead] /\ lastSig.id = NoId)
          => launches[JobB] = 1 /\ outcome[1] = "returned")
C39_Witness ==
  /\ calls = 1 /\ Quiescent /\ outcome[1] = "returned" /\ launches[JobB] = 1
  /\ cfg.mode[JobA] = "modal" /\ db[3].present /\ db[3].name = JobB
  /\ hist[3] = <<"initialized", "created", "suspended", "created", "submitted", "running",
                 "collect", "finished">>
  /\ det[1].name = JobB

\* C40: suspended successors are woken by the parent's collect handler only. The
\* record of a suspended job that has a parent is changed only by the object the
\* parent's successor scan loaded, which sets it to created, or by a run() the
\* user called with run_again or repair on that job. After one call in which the
\* parent ended aborted, no successor was run and the successors are as they
\* were; after one call in which the run of the first successor raised during the
\* scan, the second successor is still suspended and was not launched.
C40_OnlyCollectWakes ==
  /\ [][\A i \in Ids :
          (/\ db[i].present /\ db[i].status = "suspended" /\ db[i].parentid # NoId
           /\ db'[i] # db[i])
            => \E p \in Users :
                 /\ stack[p] # <<>> /\ Top(p).id = i /\ exc[p] = "none"
                 /\ \/ /\ Len(stack[p]) >= 2 /\ Top(p).pc = "succ_created"
                       /\ stack[p][Len(stack[p]) - 1].id = db[i].parentid
                       /\ stack[p][Len(stack[p]) - 1].pc = "succ_loop"
                       /\ db'[i] = [db[i] EXCEPT !.status = "created"]
                    \/ /\ Len(stack[p]) = 1 /\ Top(p).pc = "run" /\ Top(p).ra
                       /\ ~db'[i].present
                    \/ /\ Len(stack[p]) = 1 /\ Top(p).pc = "created" /\ calls > 1
                       /\ db'[i] = [db[i] EXCEPT !.status = "submitted"]]_vars
  /\ []((Quiescent /\ calls = 1 /\ db[1].status = "aborted")
          => /\ hist[2] = <<db[2].status>>
             /\ db[3].present => db[3].status = "suspended"
             /\ launches[JobB] = 0 /\ launches[JobM] = 0)
  /\ []((Quiescent /\ calls = 1 /\ hist[2][1] = "suspended" /\ db[2].status = "aborted"
           /\ db[3].present)
          => /\ db[3].status = "suspended" /\ launches[JobB] = 0
             /\ db[1].status = "finished" /\ outcome[1] = "raised")
C40_Witness ==
  /\ Quiescent /\ calls = 1 /\ outcome[1] = "raised"
  /\ db[1].status = "finished" /\ hist[2][1] = "suspended" /\ db[2].status = "aborted"
  /\ db[3].present /\ db[3].name = JobB /\ db[3].status = "suspended" /\ launches[JobB] = 0

====
